---------------------------- MODULE Spec2Model ----------------------------
(***************************************************************************)
(* Model of the native memory-management stack of MVB_SR_POC:              *)
(*   AlignedAllocator  (memory/aligned_allocator.{h,cpp})                  *)
(*   MemoryTracker     (memory/memory_tracker.{h,cpp})                     *)
(*   MemoryPool and its BlockPool tiers (memory/memory_pool.{h,cpp})       *)
(*                                                                         *)
(* Specifications:                                                         *)
(*   Spec      one MemoryPool over the allocator and the tracker; every    *)
(*             public call is one atomic action (each call runs under the  *)
(*             locks of the objects it touches).                           *)
(*   SpecTier  one BlockPool tier in isolation (acquire / release /        *)
(*             expand_pool) with larger block counts.                      *)
(*   SpecAlign AlignedAllocator::allocate / deallocate with the address    *)
(*             arithmetic of a WordBits-bit machine word.                  *)
(*   SpecConc  AlignedAllocator called from several threads, one atomic    *)
(*             access per step.                                            *)
(***************************************************************************)
EXTENDS Integers, Sequences, FiniteSets, TLC

(***************************************************************************)
(* Bounds of the model.                                                    *)
(***************************************************************************)
\* width of size_t / uintptr_t in the model
WordBits == 8
\* abstract user addresses 1..MaxAddr handed out by the platform malloc
MaxAddr == 4
\* public MemoryPool calls per behaviour of Spec
MaxOps == 4
\* block sizes and initial block counts of the configurations Spec starts from
BlockSmall == 2
BlockMedium == 3
BlockLarge == 4
CountSmall == 1
CountMedium == 1
\* SpecTier: heap blocks, largest initial block count, release calls per behaviour
MaxTierAddr == 10
MaxTierCount == 9
MaxTierReleases == 2
\* SpecAlign: allocate calls per behaviour, largest of the small request
\* sizes, end of the address range std::malloc serves
MaxAlignCalls == 2
MaxAlignSize == 1
HeapTop == 160
\* SpecConc: threads, heap blocks, calls started per behaviour, largest size
NumThreads == 2
MaxConcAddr == 2
MaxConcCalls == 2
MaxConcSize == 2

WordMod == 2 ^ WordBits

NULL == 0

Addr == 1 .. MaxAddr

\* size_t arithmetic is modulo 2^WordBits
Wrap(x) == x % WordMod

Max(a, b) == IF a >= b THEN a ELSE b

(***************************************************************************)
(* Program constants.                                                      *)
(***************************************************************************)
\* AlignedAllocator::CACHE_LINE
CACHE_LINE == 64
\* sizeof(AllocationHeader) on an LP64 target: void*, size_t, size_t, uint32_t
HeaderSize == 32

TagAligned == "AlignedAllocator"
TagPool == "MemoryPool"

(***************************************************************************)
(* Bit operations on machine words, as align_up and the power-of-two test  *)
(* of AlignedAllocator::allocate use them.                                 *)
(***************************************************************************)
RECURSIVE BitAndN(_, _, _)
BitAndN(x, y, n) ==
    IF n = 0 THEN 0
    ELSE (IF x % 2 = 1 /\ y % 2 = 1 THEN 1 ELSE 0)
         + 2 * BitAndN(x \div 2, y \div 2, n - 1)

BitAnd(x, y) == BitAndN(x, y, WordBits)

BitNot(x) == WordMod - 1 - x

\* alignment == 0 || (alignment & (alignment - 1)) != 0
InvalidAlignmentZeroOnly(alignment) == alignment = 0

InvalidAlignment(alignment) ==
    alignment = 0 \/ BitAnd(alignment, Wrap(alignment - 1)) # 0

\* if (alignment < sizeof(AllocationHeader)) alignment = sizeof(AllocationHeader)
EffectiveAlignment(alignment) ==
    IF alignment < HeaderSize THEN HeaderSize ELSE alignment

\* (addr + alignment - 1) & ~(alignment - 1)
align_up_drop(addr, alignment) ==
    BitAnd(addr, BitNot(Wrap(alignment - 1)))

align_up(addr, alignment) ==
    BitAnd(Wrap(addr + alignment - 1), BitNot(Wrap(alignment - 1)))

(***************************************************************************)
(* State.                                                                  *)
(***************************************************************************)
VARIABLES
    \* --- platform heap and AlignedAllocator (abstract addresses) ---
    heap,        \* Addr -> [magic, size]: the AllocationHeader before each user pointer
    aa,          \* AlignedAllocator's atomic counters
    tracker,     \* the MemoryTracker singleton
    aborted,     \* std::abort() was reached
    \* --- one MemoryPool ---
    config_,     \* MemoryPool::config_
    pools,       \* tier name -> BlockPool
    direct_allocations_,  \* set of [ptr, size]
    stats_,      \* MemoryPool::stats_
    \* --- the caller ---
    held,        \* pointers returned by MemoryPool::allocate and not yet given back
    clean,       \* the caller has respected the API so far
    last,        \* the last call made and what it returned
    nops,        \* number of calls made
    \* --- SpecAlign: the heap with machine addresses ---
    reservations,  \* live std::malloc blocks, as [raw, total]
    headers,       \* address -> AllocationHeader written there
    allocs,        \* pointers returned by AlignedAllocator::allocate, not yet freed
    \* --- SpecConc: threads inside AlignedAllocator ---
    pc,            \* thread -> next step of the call it is in, or "idle"
    loc,           \* thread -> locals of that call
    owned,         \* thread -> pointers it was returned and has not freed
    max_total,     \* largest value total_allocated_ took since the last reset
    reset_dirty,   \* reset_statistics ran while an allocation existed
    \* --- SpecTracker: calls made on the MemoryTracker itself ---
    untagged_bytes,  \* bytes added by untagged track_allocation calls, less those removed again
    prev,            \* the call made before `last`
    \* --- SpecZero: what the memory behind each user pointer holds ---
    memory           \* address -> [bytes, lease]

poolVars == <<config_, pools, direct_allocations_, stats_>>
worldVars == <<heap, aa, tracker, aborted>>
callerVars == <<held, clean, last, nops>>
alignVars == <<reservations, headers, allocs>>
concVars == <<pc, loc, owned, max_total, reset_dirty>>
trackVars == <<untagged_bytes, prev>>
vars == <<heap, aa, tracker, aborted, config_, pools, direct_allocations_,
          stats_, held, clean, last, nops, reservations, headers, allocs,
          pc, loc, owned, max_total, reset_dirty, untagged_bytes, prev, memory>>


(***************************************************************************)
(* std::unordered_map as a function whose domain is the set of keys.       *)
(***************************************************************************)
EmptyMap == [k \in {} |-> 0]

MapPut(m, k, v) == [x \in (DOMAIN m) \cup {k} |-> IF x = k THEN v ELSE m[x]]

MapErase(m, k) == [x \in (DOMAIN m) \ {k} |-> m[x]]

(***************************************************************************)
(* MemoryTracker (memory_tracker.cpp).  The timestamp and the always-empty *)
(* stack trace of an AllocationInfo are not modelled: nothing reads them   *)
(* but dump_allocations.                                                   *)
(***************************************************************************)
TrackerStats0 ==
    [total_allocations |-> 0, total_deallocations |-> 0,
     current_allocated |-> 0, peak_allocated |-> 0,
     total_bytes_allocated |-> 0, total_bytes_deallocated |-> 0,
     allocations_by_tag |-> EmptyMap]

Tracker0 == [allocations_ |-> EmptyMap, stats_ |-> TrackerStats0, enabled_ |-> TRUE]

\* MemoryTracker::update_peak_memory
TrackerUpdatePeak(st) ==
    IF st.current_allocated > st.peak_allocated
    THEN [st EXCEPT !.peak_allocated = st.current_allocated]
    ELSE st

\* allocations_by_tag[tag] += size  (operator[] creates a zero entry first)
TagAdd(m, tag, size) ==
    MapPut(m, tag, Wrap((IF tag \in DOMAIN m THEN m[tag] ELSE 0) + size))

\* a deallocation that leaves the per-tag total as it was
TagSubStale(m, tag, size) == m

\* allocations_by_tag[tag] -= size; erase the key when it reaches zero
TagSub(m, tag, size) ==
    LET v == Wrap((IF tag \in DOMAIN m THEN m[tag] ELSE 0) - size)
    IN  IF v = 0 THEN MapErase(m, tag) ELSE MapPut(m, tag, v)

\* a track_allocation that replaces the entry of a pointer already in the
\* ledger without counting the call again
track_allocation_once(tr, ptr, size, alignment, tag) ==
    IF ~tr.enabled_ \/ ptr = NULL THEN tr
    ELSE IF ptr \in DOMAIN tr.allocations_
    THEN [tr EXCEPT !.allocations_ =
              MapPut(@, ptr, [size |-> size, alignment |-> alignment, tag |-> tag])]
    ELSE LET st == [tr.stats_ EXCEPT
                       !.total_allocations = Wrap(@ + 1),
                       !.current_allocated = Wrap(@ + size),
                       !.total_bytes_allocated = Wrap(@ + size),
                       !.allocations_by_tag =
                           IF tag # "" THEN TagAdd(@, tag, size) ELSE @]
         IN  [tr EXCEPT
                !.allocations_ =
                    MapPut(@, ptr, [size |-> size, alignment |-> alignment, tag |-> tag]),
                !.stats_ = TrackerUpdatePeak(st)]

\* MemoryTracker::track_allocation
track_allocation(tr, ptr, size, alignment, tag) ==
    IF ~tr.enabled_ \/ ptr = NULL THEN tr
    ELSE LET st == tr.stats_
             st1 == [st EXCEPT
                       !.total_allocations = Wrap(@ + 1),
                       !.current_allocated = Wrap(@ + size),
                       !.total_bytes_allocated = Wrap(@ + size),
                       !.allocations_by_tag =
                           IF tag # "" THEN TagAdd(@, tag, size) ELSE @]
         IN  [tr EXCEPT
                !.allocations_ =
                    MapPut(@, ptr, [size |-> size, alignment |-> alignment, tag |-> tag]),
                !.stats_ = TrackerUpdatePeak(st1)]

\* a track_deallocation that counts a call on an untracked pointer
track_deallocation_counts_untracked(tr, ptr) ==
    IF ~tr.enabled_ \/ ptr = NULL THEN tr
    ELSE IF ptr \notin DOMAIN tr.allocations_
    THEN [tr EXCEPT !.stats_.total_deallocations = Wrap(@ + 1)]
    ELSE LET size == tr.allocations_[ptr].size
             tag == tr.allocations_[ptr].tag
         IN  [tr EXCEPT
                !.allocations_ = MapErase(@, ptr),
                !.stats_ = [@ EXCEPT
                       !.total_deallocations = Wrap(@ + 1),
                       !.current_allocated = Wrap(@ - size),
                       !.total_bytes_deallocated = Wrap(@ + size),
                       !.allocations_by_tag =
                           IF tag # "" THEN TagSub(@, tag, size) ELSE @]]

\* MemoryTracker::track_deallocation
track_deallocation(tr, ptr) ==
    IF ~tr.enabled_ \/ ptr = NULL THEN tr
    ELSE IF ptr \notin DOMAIN tr.allocations_ THEN tr
    ELSE LET size == tr.allocations_[ptr].size
             tag == tr.allocations_[ptr].tag
         IN  [tr EXCEPT
                !.allocations_ = MapErase(@, ptr),
                !.stats_ = [@ EXCEPT
                       !.total_deallocations = Wrap(@ + 1),
                       !.current_allocated = Wrap(@ - size),
                       !.total_bytes_deallocated = Wrap(@ + size),
                       !.allocations_by_tag =
                           IF tag # "" THEN TagSub(@, tag, size) ELSE @]]

\* MemoryTracker::clear
TrackerClear(tr) == [tr EXCEPT !.allocations_ = EmptyMap, !.stats_ = TrackerStats0]

\* MemoryTracker::detect_leaks
detect_leaks(tr) == DOMAIN tr.allocations_

(***************************************************************************)
(* The platform heap and AlignedAllocator over abstract addresses.  A      *)
(* world bundles the heap, the allocator's counters, the tracker and the   *)
(* abort flag, so that a call which allocates or frees several times is    *)
(* one composition of these operators.                                     *)
(*                                                                         *)
(* heap[p].magic is the magic word of the header before user pointer p:    *)
(* "NONE" (p never handed out), "ALIVE" (MAGIC_NUMBER) or "FREED"          *)
(* (FREED_MAGIC, the block was given back to the platform).                *)
(***************************************************************************)
HeapOf(addrs) == [p \in addrs |-> [magic |-> "NONE", size |-> 0]]

Heap0 == HeapOf(Addr)

AA0 == [total_allocated_ |-> 0, allocation_count_ |-> 0,
        peak_allocated_ |-> 0, total_deallocated_ |-> 0]

World0 == [heap |-> Heap0, aa |-> AA0, tr |-> Tracker0, aborted |-> FALSE]

Live(h) == {p \in DOMAIN h : h[p].magic = "ALIVE"}

\* std::malloc on a heap of finitely many blocks: a block freed earlier or a block
\* never handed out; NULL when every block is in use.  Blocks never handed
\* out are interchangeable; the lowest stands for all.
MallocResults(w) ==
    LET h == w.heap
        fresh == {p \in DOMAIN h : h[p].magic = "NONE"}
        blocks == {p \in DOMAIN h : h[p].magic = "FREED"}
                  \cup (IF fresh = {} THEN {}
                        ELSE {CHOOSE p \in fresh : \A q \in fresh : p <= q})
    IN  IF blocks = {} THEN {NULL} ELSE blocks

\* std::atomic<size_t>::fetch_add / fetch_sub: the value stored
fetch_add(v, d) == Wrap(v + d)

fetch_sub_lost(v, d) == v

fetch_sub(v, d) == Wrap(v - d)

\* std::atomic<size_t>::compare_exchange_weak(expected, desired) on a cell
\* holding actual: the value the cell holds afterwards, the value left in
\* expected, and the result.  A spurious failure leaves both unchanged.
compare_exchange_blind(actual, expected, desired) ==
    [value |-> desired, expected |-> expected, ok |-> TRUE]

compare_exchange_weak(actual, expected, desired) ==
    IF actual = expected
    THEN [value |-> desired, expected |-> expected, ok |-> TRUE]
    ELSE [value |-> actual, expected |-> actual, ok |-> FALSE]

\* AlignedAllocator::update_peak_memory, run to completion
update_peak_memory(a, current) ==
    IF current > a.peak_allocated_
    THEN [a EXCEPT !.peak_allocated_ = current]
    ELSE a

\* AlignedAllocator::allocate, the statistics block: total_allocated_ and
\* allocation_count_ go up, then the peak follows prev_total + size
CountAllocation(a, size) ==
    LET prev_total == a.total_allocated_
        a1 == [a EXCEPT !.total_allocated_ = fetch_add(prev_total, size),
                        !.allocation_count_ = fetch_add(@, 1)]
    IN  update_peak_memory(a1, Wrap(prev_total + size))

\* AlignedAllocator::deallocate, the statistics block
CountDeallocation(a, size) ==
    [a EXCEPT !.total_allocated_ = fetch_sub(@, size),
              !.total_deallocated_ = fetch_add(@, size),
              !.allocation_count_ = fetch_sub(@, 1)]

\* AlignedAllocator::allocate from the header write on, malloc having
\* returned the block whose aligned user pointer is p
AllocateAt(w, p, size, alignment) ==
    [w EXCEPT
           !.heap = [@ EXCEPT ![p] = [magic |-> "ALIVE", size |-> size]],
           !.aa = CountAllocation(@, size),
           !.tr = track_allocation(@, p, size, EffectiveAlignment(alignment),
                                   TagAligned)]

\* AlignedAllocator::allocate: every outcome, as [w, ptr]
AAAllocate(w, size, alignment) ==
    IF InvalidAlignment(alignment) THEN {[w |-> w, ptr |-> NULL]}
    ELSE {IF p = NULL THEN [w |-> w, ptr |-> NULL]
          ELSE [w |-> AllocateAt(w, p, size, alignment), ptr |-> p]
          : p \in MallocResults(w)}

\* AlignedAllocator::deallocate.  A header whose magic is not MAGIC_NUMBER
\* ends the process.
AADeallocate(w, ptr) ==
    IF ptr = NULL \/ w.aborted THEN w
    ELSE IF w.heap[ptr].magic # "ALIVE" THEN [w EXCEPT !.aborted = TRUE]
    ELSE LET size == w.heap[ptr].size
         IN  [w EXCEPT
                !.aa = CountDeallocation(@, size),
                !.tr = track_deallocation(@, ptr),
                !.heap = [@ EXCEPT ![ptr] = [magic |-> "FREED", size |-> size]]]

\* AlignedAllocator::reset_statistics
AAResetStatistics(w) == [w EXCEPT !.aa = AA0]


(***************************************************************************)
(* MemoryPool::BlockPool (memory_pool.cpp).  blocks_ is the vector of      *)
(* owned Blocks ([data, in_use]); free_list_ is the queue of Block*, here  *)
(* the positions of the blocks in blocks_.                                 *)
(***************************************************************************)
BlockPoolEmpty(block_size, alignment, allow_expansion) ==
    [block_size_ |-> block_size, alignment_ |-> alignment,
     allow_expansion_ |-> allow_expansion, blocks_ |-> <<>>, free_list_ |-> <<>>]

\* auto block = make_unique<Block>(ptr); free_list_.push(block.get());
\* blocks_.push_back(std::move(block));
PushBlock(bp, ptr) ==
    [bp EXCEPT !.blocks_ = Append(@, [data |-> ptr, in_use |-> FALSE]),
               !.free_list_ = Append(@, Len(bp.blocks_) + 1)]

\* The allocation loop of the constructor and of expand_pool: up to k
\* blocks, stopping at the first failed AlignedAllocator::allocate.
\* Every outcome, as [w, bp].
RECURSIVE GrowBlocks(_, _, _)
GrowBlocks(w, bp, k) ==
    IF k = 0 THEN {[w |-> w, bp |-> bp]}
    ELSE UNION {IF r.ptr = NULL THEN {[w |-> r.w, bp |-> bp]}
                ELSE GrowBlocks(r.w, PushBlock(bp, r.ptr), k - 1)
                : r \in AAAllocate(w, bp.block_size_, bp.alignment_)}

\* BlockPool::BlockPool
BlockPoolNew(w, block_size, initial_count, alignment, allow_expansion) ==
    GrowBlocks(w, BlockPoolEmpty(block_size, alignment, allow_expansion), initial_count)

\* std::max(size_t(1), blocks_.size() / 4)
expansion_count_fixed(bp) == 1

expansion_count(bp) == Max(1, Len(bp.blocks_) \div 4)

\* an expansion that builds the new blocks in place of the old ones
expand_pool_replace(w, bp) ==
    GrowBlocks(w, [bp EXCEPT !.blocks_ = <<>>, !.free_list_ = <<>>],
               expansion_count(bp))

\* BlockPool::expand_pool
expand_pool(w, bp) == GrowBlocks(w, bp, expansion_count(bp))

\* an acquire that leases the block at the back of the free-list
acquire_lifo(w, bp) ==
    LET grown == IF bp.free_list_ = <<>> /\ bp.allow_expansion_
                 THEN expand_pool(w, bp)
                 ELSE {[w |-> w, bp |-> bp]}
    IN  {IF g.bp.free_list_ = <<>>
         THEN [w |-> g.w, bp |-> g.bp, ptr |-> NULL]
         ELSE LET n == Len(g.bp.free_list_)
                  block == g.bp.free_list_[n]
              IN  [w |-> g.w,
                   bp |-> [g.bp EXCEPT !.free_list_ = SubSeq(@, 1, n - 1),
                                       !.blocks_[block].in_use = TRUE],
                   ptr |-> g.bp.blocks_[block].data]
         : g \in grown}

\* an acquire that leases the block at the front of the free-list and
\* leaves it queued
acquire_keeps_queued(w, bp) ==
    LET grown == IF bp.free_list_ = <<>> /\ bp.allow_expansion_
                 THEN expand_pool(w, bp)
                 ELSE {[w |-> w, bp |-> bp]}
    IN  {IF g.bp.free_list_ = <<>>
         THEN [w |-> g.w, bp |-> g.bp, ptr |-> NULL]
         ELSE LET block == Head(g.bp.free_list_)
              IN  [w |-> g.w,
                   bp |-> [g.bp EXCEPT !.blocks_[block].in_use = TRUE],
                   ptr |-> g.bp.blocks_[block].data]
         : g \in grown}

\* BlockPool::acquire: every outcome, as [w, bp, ptr]
acquire(w, bp) ==
    LET grown == IF bp.free_list_ = <<>> /\ bp.allow_expansion_
                 THEN expand_pool(w, bp)
                 ELSE {[w |-> w, bp |-> bp]}
    IN  {IF g.bp.free_list_ = <<>>
         THEN [w |-> g.w, bp |-> g.bp, ptr |-> NULL]
         ELSE LET block == Head(g.bp.free_list_)
              IN  [w |-> g.w,
                   bp |-> [g.bp EXCEPT !.free_list_ = Tail(@),
                                       !.blocks_[block].in_use = TRUE],
                   ptr |-> g.bp.blocks_[block].data]
         : g \in grown}

\* The first block of blocks_ whose data pointer is ptr (0 when none)
FindBlock(bp, ptr) ==
    LET hits == {i \in 1 .. Len(bp.blocks_) : bp.blocks_[i].data = ptr}
    IN  IF hits = {} THEN 0 ELSE CHOOSE i \in hits : \A j \in hits : i <= j

\* a release that queues the block but leaves it marked as leased
release_keeps_flag(bp, ptr) ==
    LET i == FindBlock(bp, ptr)
    IN  IF ptr = NULL \/ i = 0 THEN bp
        ELSE IF ~bp.blocks_[i].in_use THEN bp
        ELSE [bp EXCEPT !.free_list_ = Append(@, i)]

\* BlockPool::release
release_unchecked(bp, ptr) ==
    LET i == FindBlock(bp, ptr)
    IN  IF ptr = NULL \/ i = 0 THEN bp
        ELSE [bp EXCEPT !.blocks_[i].in_use = FALSE,
                        !.free_list_ = Append(@, i)]

release(bp, ptr) ==
    LET i == FindBlock(bp, ptr)
    IN  IF ptr = NULL \/ i = 0 THEN bp
        ELSE IF ~bp.blocks_[i].in_use THEN bp
        ELSE [bp EXCEPT !.blocks_[i].in_use = FALSE,
                        !.free_list_ = Append(@, i)]

\* an ownership test that takes every non-null pointer for a block of the tier
owns_any(bp, ptr) == ptr # NULL

\* BlockPool::owns
owns(bp, ptr) == ptr # NULL /\ FindBlock(bp, ptr) # 0

\* BlockPool::get_free_count, get_total_count
get_free_count(bp) == Len(bp.free_list_)

get_total_count(bp) == Len(bp.blocks_)

InUseCount(bp) == Cardinality({i \in 1 .. Len(bp.blocks_) : bp.blocks_[i].in_use})

\* BlockPool::~BlockPool: the vector of unique_ptr<Block> is destroyed, each
\* Block's deleter calling AlignedAllocator::deallocate on its data
RECURSIVE FreeBlocks(_, _, _)
FreeBlocks(w, blocks, i) ==
    IF i = 0 THEN w
    ELSE FreeBlocks(AADeallocate(w, blocks[i].data), blocks, i - 1)

BlockPoolDestroy(w, bp) == FreeBlocks(w, bp.blocks_, Len(bp.blocks_))


(***************************************************************************)
(* MemoryPool (memory_pool.cpp).                                           *)
(***************************************************************************)
Tiers == <<"small", "medium", "large">>

TierSet == {"small", "medium", "large"}

NoTier == "none"

block_size_of(cfg, t) ==
    CASE t = "small" -> cfg.small_block_size
      [] t = "medium" -> cfg.medium_block_size
      [] t = "large" -> cfg.large_block_size

pool_count_of(cfg, t) ==
    CASE t = "small" -> cfg.small_pool_count
      [] t = "medium" -> cfg.medium_pool_count
      [] t = "large" -> cfg.large_pool_count

\* MemoryPool::Statistics()
Statistics0 ==
    [total_allocated |-> 0, total_deallocated |-> 0, current_usage |-> 0,
     peak_usage |-> 0, allocation_count |-> 0, deallocation_count |-> 0,
     cache_hits |-> 0, cache_misses |-> 0,
     small_pool_hits |-> 0, medium_pool_hits |-> 0, large_pool_hits |-> 0,
     direct_allocations |-> 0]

\* MemoryPool::select_pool
select_pool_no_fallthrough(cfg, size) ==
    IF size <= cfg.small_block_size THEN "small"
    ELSE IF size <= cfg.medium_block_size THEN "medium"
    ELSE "large"

\* a selection whose bounds are exclusive
select_pool_exclusive(cfg, size) ==
    IF size < cfg.small_block_size THEN "small"
    ELSE IF size < cfg.medium_block_size THEN "medium"
    ELSE IF size < cfg.large_block_size THEN "large"
    ELSE NoTier

select_pool(cfg, size) ==
    IF size <= cfg.small_block_size THEN "small"
    ELSE IF size <= cfg.medium_block_size THEN "medium"
    ELSE IF size <= cfg.large_block_size THEN "large"
    ELSE NoTier

\* MemoryPool::update_peak_usage
update_peak_usage(st) ==
    IF st.current_usage > st.peak_usage
    THEN [st EXCEPT !.peak_usage = st.current_usage]
    ELSE st

\* an update_statistics that counts every allocation as a pool hit
update_statistics_always_hit(cfg, st, size, is_allocation, is_pool_hit) ==
    IF ~cfg.enable_statistics THEN st
    ELSE IF is_allocation
    THEN update_peak_usage(
             [st EXCEPT !.total_allocated = Wrap(@ + size),
                        !.current_usage = Wrap(@ + size),
                        !.allocation_count = Wrap(@ + 1),
                        !.cache_hits = Wrap(@ + 1)])
    ELSE [st EXCEPT !.total_deallocated = Wrap(@ + size),
                    !.current_usage = Wrap(@ - size),
                    !.deallocation_count = Wrap(@ + 1)]

\* MemoryPool::update_statistics
update_statistics(cfg, st, size, is_allocation, is_pool_hit) ==
    IF ~cfg.enable_statistics THEN st
    ELSE IF is_allocation
    THEN update_peak_usage(
             [st EXCEPT !.total_allocated = Wrap(@ + size),
                        !.current_usage = Wrap(@ + size),
                        !.allocation_count = Wrap(@ + 1),
                        !.cache_hits = IF is_pool_hit THEN Wrap(@ + 1) ELSE @,
                        !.cache_misses = IF is_pool_hit THEN @ ELSE Wrap(@ + 1)])
    ELSE [st EXCEPT !.total_deallocated = Wrap(@ + size),
                    !.current_usage = Wrap(@ - size),
                    !.deallocation_count = Wrap(@ + 1)]

\* stats_.small_pool_hits++ / medium_pool_hits++ / large_pool_hits++
count_hit_small_only(st, t) ==
    [st EXCEPT !.small_pool_hits = Wrap(@ + 1)]

count_hit(st, t) ==
    CASE t = "small" -> [st EXCEPT !.small_pool_hits = Wrap(@ + 1)]
      [] t = "medium" -> [st EXCEPT !.medium_pool_hits = Wrap(@ + 1)]
      [] t = "large" -> [st EXCEPT !.large_pool_hits = Wrap(@ + 1)]

hits_of(st, t) ==
    CASE t = "small" -> st.small_pool_hits
      [] t = "medium" -> st.medium_pool_hits
      [] t = "large" -> st.large_pool_hits

\* A MemoryPool as a value: [w, pools, direct, stats]
\* MemoryPool::MemoryPool: the three tiers are built small, medium, large
MemoryPoolNew(w, cfg) ==
    UNION {UNION {{[w |-> l.w,
                    pools |-> [t \in TierSet |->
                                 CASE t = "small" -> s.bp
                                   [] t = "medium" -> m.bp
                                   [] t = "large" -> l.bp],
                    direct |-> EmptyMap,
                    stats |-> Statistics0]
                   : l \in BlockPoolNew(m.w, cfg.large_block_size, cfg.large_pool_count,
                                        cfg.alignment, cfg.allow_expansion)}
                  : m \in BlockPoolNew(s.w, cfg.medium_block_size, cfg.medium_pool_count,
                                       cfg.alignment, cfg.allow_expansion)}
           : s \in BlockPoolNew(w, cfg.small_block_size, cfg.small_pool_count,
                                cfg.alignment, cfg.allow_expansion)}

\* an allocate that gives up when the selected tier has no block to lease
AllocateTail_no_fallback(cfg, direct, size, t, a) ==
    {[w |-> a.w, pools |-> a.pools, direct |-> direct, stats |-> a.stats,
      ptr |-> a.ptr, tier |-> t, hit |-> a.ptr # NULL]}

\* MemoryPool::allocate, the direct path (lines 218-229) and the common
\* tail (lines 231-240), after the tier attempt left [w, pools, stats, ptr].
\* Every outcome, as [w, pools, direct, stats, ptr, tier, hit].
AllocateTail(cfg, direct, size, t, a) ==
    LET hit == a.ptr # NULL
        fallback == IF hit THEN {[w |-> a.w, ptr |-> a.ptr]}
                    ELSE AAAllocate(a.w, size, cfg.alignment)
    IN  {LET isdirect == ~hit /\ d.ptr # NULL
             st1 == IF isdirect
                    THEN [a.stats EXCEPT !.direct_allocations = Wrap(@ + 1)]
                    ELSE a.stats
         IN  [w |-> IF d.ptr # NULL
                    THEN [d.w EXCEPT !.tr = track_allocation(@, d.ptr, size,
                                                             cfg.alignment, TagPool)]
                    ELSE d.w,
              pools |-> a.pools,
              direct |-> IF isdirect
                         THEN MapPut(direct, d.ptr, [ptr |-> d.ptr, size |-> size])
                         ELSE direct,
              stats |-> IF d.ptr # NULL
                        THEN update_statistics(cfg, st1, size, TRUE, hit)
                        ELSE st1,
              ptr |-> d.ptr, tier |-> t, hit |-> hit]
         : d \in fallback}

\* MemoryPool::allocate
allocate(w, cfg, pls, direct, st, size) ==
    IF size = 0
    THEN {[w |-> w, pools |-> pls, direct |-> direct, stats |-> st,
           ptr |-> NULL, tier |-> NoTier, hit |-> FALSE]}
    ELSE LET t == select_pool(cfg, size)
             tried == IF t = NoTier
                      THEN {[w |-> w, pools |-> pls, stats |-> st, ptr |-> NULL]}
                      ELSE {[w |-> r.w,
                             pools |-> [pls EXCEPT ![t] = r.bp],
                             stats |-> IF r.ptr # NULL THEN count_hit(st, t) ELSE st,
                             ptr |-> r.ptr]
                            : r \in acquire(w, pls[t])}
         IN  UNION {AllocateTail(cfg, direct, size, t, a) : a \in tried}

\* a deallocate that frees a direct allocation and leaves its entry in
\* direct_allocations_
deallocate_keeps_entry(w, cfg, pls, direct, st, ptr) ==
    LET same == [w |-> w, pools |-> pls, direct |-> direct, stats |-> st]
        tier(t) == [w |-> [w EXCEPT !.tr = track_deallocation(@, ptr)],
                    pools |-> [pls EXCEPT ![t] = release(@, ptr)],
                    direct |-> direct,
                    stats |-> update_statistics(cfg, st, block_size_of(cfg, t),
                                                FALSE, TRUE)]
    IN  IF ptr = NULL THEN same
        ELSE IF owns(pls["small"], ptr) THEN tier("small")
        ELSE IF owns(pls["medium"], ptr) THEN tier("medium")
        ELSE IF owns(pls["large"], ptr) THEN tier("large")
        ELSE IF ptr \in DOMAIN direct
        THEN LET size == direct[ptr].size
                 w1 == AADeallocate(w, ptr)
             IN  IF w1.aborted
                 THEN [same EXCEPT !.w = w1]
                 ELSE [w |-> [w1 EXCEPT !.tr = track_deallocation(@, ptr)],
                       pools |-> pls,
                       direct |-> direct,
                       stats |-> update_statistics(cfg, st, size, FALSE, FALSE)]
        ELSE [same EXCEPT !.w = [w EXCEPT !.tr = track_deallocation(@, ptr)]]

\* a deallocate that hands every pointer no tier owns to
\* AlignedAllocator::deallocate, in the direct-allocation map or not
deallocate_frees_unknown(w, cfg, pls, direct, st, ptr) ==
    LET same == [w |-> w, pools |-> pls, direct |-> direct, stats |-> st]
        tier(t) == [w |-> [w EXCEPT !.tr = track_deallocation(@, ptr)],
                    pools |-> [pls EXCEPT ![t] = release(@, ptr)],
                    direct |-> direct,
                    stats |-> update_statistics(cfg, st, block_size_of(cfg, t),
                                                FALSE, TRUE)]
    IN  IF ptr = NULL THEN same
        ELSE IF owns(pls["small"], ptr) THEN tier("small")
        ELSE IF owns(pls["medium"], ptr) THEN tier("medium")
        ELSE IF owns(pls["large"], ptr) THEN tier("large")
        ELSE LET w1 == AADeallocate(w, ptr)
             IN  IF w1.aborted
                 THEN [same EXCEPT !.w = w1, !.direct = MapErase(direct, ptr)]
                 ELSE [w |-> [w1 EXCEPT !.tr = track_deallocation(@, ptr)],
                       pools |-> pls,
                       direct |-> MapErase(direct, ptr),
                       stats |-> st]

\* MemoryPool::deallocate: [w, pools, direct, stats]
deallocate(w, cfg, pls, direct, st, ptr) ==
    LET same == [w |-> w, pools |-> pls, direct |-> direct, stats |-> st]
        tier(t) == [w |-> [w EXCEPT !.tr = track_deallocation(@, ptr)],
                    pools |-> [pls EXCEPT ![t] = release(@, ptr)],
                    direct |-> direct,
                    stats |-> update_statistics(cfg, st, block_size_of(cfg, t),
                                                FALSE, TRUE)]
    IN  IF ptr = NULL THEN same
        ELSE IF owns(pls["small"], ptr) THEN tier("small")
        ELSE IF owns(pls["medium"], ptr) THEN tier("medium")
        ELSE IF owns(pls["large"], ptr) THEN tier("large")
        ELSE IF ptr \in DOMAIN direct
        THEN LET size == direct[ptr].size
                 w1 == AADeallocate(w, ptr)
             IN  IF w1.aborted
                 THEN [same EXCEPT !.w = w1, !.direct = MapErase(direct, ptr)]
                 ELSE [w |-> [w1 EXCEPT !.tr = track_deallocation(@, ptr)],
                       pools |-> pls,
                       direct |-> MapErase(direct, ptr),
                       stats |-> update_statistics(cfg, st, size, FALSE, FALSE)]
        ELSE [same EXCEPT !.w = [w EXCEPT !.tr = track_deallocation(@, ptr)]]

\* The direct allocations of a map, freed one by one (reset, lines 289-295)
RECURSIVE FreeDirect(_, _)
FreeDirect(w, direct) ==
    IF DOMAIN direct = {} THEN w
    ELSE LET k == CHOOSE k \in DOMAIN direct : TRUE
         IN  FreeDirect(AADeallocate(w, direct[k].ptr), MapErase(direct, k))

\* small_pool_ = std::make_unique<BlockPool>(...): the new tier is built,
\* then the old one is destroyed.  Every outcome, as [w, bp].
ReplaceTier(w, cfg, old, t) ==
    {[w |-> BlockPoolDestroy(n.w, old), bp |-> n.bp]
     : n \in BlockPoolNew(w, block_size_of(cfg, t), pool_count_of(cfg, t),
                          cfg.alignment, cfg.allow_expansion)}

\* MemoryPool::reset: every outcome, as [w, pools, direct, stats]
reset_no_rebuild(w, cfg, pls, direct) ==
    {[w |-> FreeDirect(w, direct), pools |-> pls, direct |-> EmptyMap,
      stats |-> Statistics0]}

reset(w, cfg, pls, direct) ==
    LET w0 == FreeDirect(w, direct)
    IN  UNION {UNION {{[w |-> l.w,
                        pools |-> [t \in TierSet |->
                                     CASE t = "small" -> s.bp
                                       [] t = "medium" -> m.bp
                                       [] t = "large" -> l.bp],
                        direct |-> EmptyMap,
                        stats |-> Statistics0]
                       : l \in ReplaceTier(m.w, cfg, pls["large"], "large")}
                      : m \in ReplaceTier(s.w, cfg, pls["medium"], "medium")}
               : s \in ReplaceTier(w0, cfg, pls["small"], "small")}

\* warmup's request sizes in order: half of each tier's configured count,
\* at that tier's block size
Repeat(x, n) == [i \in 1 .. n |-> x]

WarmupSizes(cfg) ==
    Repeat(cfg.small_block_size, cfg.small_pool_count \div 2)
    \o Repeat(cfg.medium_block_size, cfg.medium_pool_count \div 2)
    \o Repeat(cfg.large_block_size, cfg.large_pool_count \div 2)

\* warmup's allocation loops (lines 333-349): every outcome, as the pool
\* [w, pools, direct, stats] and the non-null pointers in the order returned
RECURSIVE WarmupAllocate(_, _, _, _)
WarmupAllocate(cfg, mp, sizes, ptrs) ==
    IF sizes = <<>> THEN {[mp |-> mp, ptrs |-> ptrs]}
    ELSE UNION {WarmupAllocate(cfg,
                               [w |-> r.w, pools |-> r.pools,
                                direct |-> r.direct, stats |-> r.stats],
                               Tail(sizes),
                               IF r.ptr # NULL THEN Append(ptrs, r.ptr) ELSE ptrs)
                : r \in allocate(mp.w, cfg, mp.pools, mp.direct, mp.stats,
                                 Head(sizes))}

\* a release loop that gives nothing back
WarmupDeallocate_none(cfg, mp, ptrs) == mp

\* warmup's release loop (lines 351-354); nothing runs after an abort
RECURSIVE WarmupDeallocate(_, _, _)
WarmupDeallocate(cfg, mp, ptrs) ==
    IF ptrs = <<>> \/ mp.w.aborted THEN mp
    ELSE WarmupDeallocate(cfg,
                          deallocate(mp.w, cfg, mp.pools, mp.direct, mp.stats,
                                     Head(ptrs)),
                          Tail(ptrs))

\* MemoryPool::warmup: every outcome, as [w, pools, direct, stats]
warmup(w, cfg, pls, direct, st) ==
    {WarmupDeallocate(cfg, a.mp, a.ptrs)
     : a \in WarmupAllocate(cfg,
                            [w |-> w, pools |-> pls, direct |-> direct, stats |-> st],
                            WarmupSizes(cfg), <<>>)}

\* MemoryPool::get_statistics: the snapshot; hit_rate is the pair
\* <<cache_hits, cache_hits + cache_misses>>, <<0, 1>> standing for 0.0
get_statistics(st) ==
    [stats |-> st,
     hit_rate |-> IF Wrap(st.cache_hits + st.cache_misses) > 0
                  THEN <<st.cache_hits, Wrap(st.cache_hits + st.cache_misses)>>
                  ELSE <<0, 1>>]


(***************************************************************************)
(* Spec: one MemoryPool and its caller.                                    *)
(***************************************************************************)
\* MemoryPool::Config.  The bridge (jni_memory_bridge.cpp:45-50) passes the
\* six sizes and counts through unchecked, so the block sizes need not be
\* increasing; the flags are the Config fields of memory_pool.h:36-38.
Configs ==
    {[small_block_size |-> BlockSmall, medium_block_size |-> bs[1],
      large_block_size |-> bs[2],
      small_pool_count |-> CountSmall, medium_pool_count |-> CountMedium,
      large_pool_count |-> 0,
      alignment |-> CACHE_LINE, enable_statistics |-> es,
      zero_on_dealloc |-> TRUE, allow_expansion |-> ae]
     : bs \in {<<BlockMedium, BlockLarge>>, <<0, 0>>},
       es \in BOOLEAN, ae \in BOOLEAN}
    \ {c \in [small_block_size : {BlockSmall}, medium_block_size : {0},
              large_block_size : {0}, small_pool_count : {CountSmall},
              medium_pool_count : {CountMedium}, large_pool_count : {0},
              alignment : {CACHE_LINE}, enable_statistics : BOOLEAN,
              zero_on_dealloc : {TRUE}, allow_expansion : BOOLEAN]
        : ~(c.enable_statistics /\ c.allow_expansion)}

\* request sizes: 0, 1, each tier's block size and one size beyond them
Sizes == {0, 1, BlockSmall, BlockMedium, BlockLarge, BlockLarge + 1}

\* the machine-address heap is not part of this specification
AlignUnused ==
    /\ reservations = {}
    /\ headers = EmptyMap
    /\ allocs = {}

\* the tracker is only called through the allocator in this specification
TrackUnused ==
    /\ untagged_bytes = 0
    /\ prev = [op |-> "none"]

\* the contents of memory are not part of this specification
ZeroUnused == memory = EmptyMap

\* no thread is modelled in this specification
ConcUnused ==
    /\ pc = EmptyMap
    /\ loc = EmptyMap
    /\ owned = EmptyMap
    /\ max_total = 0
    /\ reset_dirty = FALSE
    /\ TrackUnused
    /\ ZeroUnused

SetWorld(w) ==
    /\ heap' = w.heap
    /\ aa' = w.aa
    /\ tracker' = w.tr
    /\ aborted' = w.aborted

TheWorld == [heap |-> heap, aa |-> aa, tr |-> tracker, aborted |-> aborted]

SetPool(mp) ==
    /\ SetWorld(mp.w)
    /\ pools' = mp.pools
    /\ direct_allocations_' = mp.direct
    /\ stats_' = mp.stats

NoCall == [op |-> "init", size |-> 0, ptr |-> NULL, tier |-> NoTier, hit |-> FALSE]

\* the memory std::malloc can still hand out when the pool is constructed:
\* just enough for the configured tiers and nothing beyond, or MaxAddr blocks
InitialHeaps == {HeapOf(1 .. n) : n \in {CountSmall + CountMedium, MaxAddr}}

Init ==
    /\ config_ \in Configs
    /\ \E mp \in UNION {MemoryPoolNew([World0 EXCEPT !.heap = h], config_)
                        : h \in InitialHeaps} :
          /\ heap = mp.w.heap
          /\ aa = mp.w.aa
          /\ tracker = mp.w.tr
          /\ aborted = mp.w.aborted
          /\ pools = mp.pools
          /\ direct_allocations_ = mp.direct
          /\ stats_ = mp.stats
    /\ held = {}
    /\ clean = TRUE
    /\ last = NoCall
    /\ nops = 0
    /\ AlignUnused
    /\ ConcUnused

\* p = pool.allocate(size)
Allocate(size) ==
    /\ ~aborted
    /\ nops < MaxOps
    /\ \E r \in allocate(TheWorld, config_, pools, direct_allocations_, stats_, size) :
          /\ SetPool(r)
          /\ held' = IF r.ptr = NULL THEN held ELSE held \cup {r.ptr}
          /\ last' = [op |-> "allocate", size |-> size, ptr |-> r.ptr,
                      tier |-> r.tier, hit |-> r.hit]
    /\ clean' = clean
    /\ nops' = nops + 1
    /\ UNCHANGED <<config_, alignVars, concVars, trackVars, memory>>

\* pool.deallocate(ptr), for any pointer value
Deallocate(ptr) ==
    /\ ~aborted
    /\ nops < MaxOps
    /\ SetPool(deallocate(TheWorld, config_, pools, direct_allocations_, stats_, ptr))
    /\ held' = held \ {ptr}
    /\ clean' = (clean /\ (ptr = NULL \/ ptr \in held))
    /\ last' = [op |-> "deallocate", size |-> 0, ptr |-> ptr,
                tier |-> NoTier, hit |-> FALSE]
    /\ nops' = nops + 1
    /\ UNCHANGED <<config_, alignVars, concVars, trackVars, memory>>

\* pool.reset()
Reset ==
    /\ ~aborted
    /\ nops < MaxOps
    /\ \E r \in reset(TheWorld, config_, pools, direct_allocations_) : SetPool(r)
    /\ clean' = (clean /\ held = {})
    /\ last' = [op |-> "reset", size |-> 0, ptr |-> NULL,
                tier |-> NoTier, hit |-> FALSE]
    /\ nops' = nops + 1
    /\ UNCHANGED <<config_, held, alignVars, concVars, trackVars, memory>>

Next ==
    \/ \E size \in Sizes : Allocate(size)
    \/ \E ptr \in {NULL} \cup Addr : Deallocate(ptr)
    \/ Reset

Spec == Init /\ [][Next]_vars


(***************************************************************************)
(* Claims checked under Spec.                                              *)
(***************************************************************************)
\* the step just taken is a MemoryPool::allocate(size) call with size > 0
AllocateCall == nops' = nops + 1 /\ last'.op = "allocate" /\ last'.size > 0

HitsUnchanged ==
    /\ stats_'.small_pool_hits = stats_.small_pool_hits
    /\ stats_'.medium_pool_hits = stats_.medium_pool_hits
    /\ stats_'.large_pool_hits = stats_.large_pool_hits

\* C1: in every tier, at every point between operations, the number of
\* blocks in the free-list plus the number of blocks marked in_use equals
\* the number of blocks the tier owns.
C1_FreePlusLeasedIsTotal ==
    \A t \in TierSet :
        get_free_count(pools[t]) + InUseCount(pools[t]) = get_total_count(pools[t])

\* C1 witness: a tier that has expanded beyond its configured count has just
\* been handed one of its blocks a second time (a double release).
C1_Witness ==
    /\ last.op = "deallocate"
    /\ ~clean
    /\ \E t \in TierSet :
          /\ owns(pools[t], last.ptr)
          /\ get_total_count(pools[t]) > pool_count_of(config_, t)
          /\ get_free_count(pools[t]) = get_total_count(pools[t])

\* C2 (the claim as stated): once every pointer returned by allocate has
\* been passed exactly once to deallocate, current_usage is 0.
C2_AllReturnedMeansZeroUsage ==
    (clean /\ held = {} /\ ~aborted) => stats_.current_usage = 0

\* C3 (the claim as stated): every allocate(size) with 0 < size <= the block
\* size of some tier increments the hit counter of the selected tier, also
\* when that tier's free-list is empty.
C3_Original ==
    [][(AllocateCall /\ select_pool(config_, last'.size) # NoTier)
       => hits_of(stats_', select_pool(config_, last'.size))
          = Wrap(hits_of(stats_, select_pool(config_, last'.size)) + 1)]_vars

\* C3 (amended): an allocate(size) whose selected tier serves it (its
\* free-list is non-empty, or its expansion adds at least one block)
\* increments that tier's hit counter by one, leaves the other two alone and
\* returns a block of that tier; when the tier is exhausted (expansion
\* disallowed or failing) no hit counter changes and a non-null result is a
\* direct allocation.
C3_HitWhenServed ==
    [][(AllocateCall /\ select_pool(config_, last'.size) # NoTier)
       => LET t == select_pool(config_, last'.size)
              served == \/ pools[t].free_list_ # <<>>
                        \/ get_total_count(pools'[t]) > get_total_count(pools[t])
          IN  IF served
              THEN /\ hits_of(stats_', t) = Wrap(hits_of(stats_, t) + 1)
                   /\ \A u \in TierSet \ {t} : hits_of(stats_', u) = hits_of(stats_, u)
                   /\ owns(pools'[t], last'.ptr)
                   /\ stats_'.direct_allocations = stats_.direct_allocations
              ELSE /\ HitsUnchanged
                   /\ last'.ptr # NULL =>
                         /\ last'.ptr \in DOMAIN direct_allocations_'
                         /\ stats_'.direct_allocations
                            = Wrap(stats_.direct_allocations + 1)]_vars

\* C3 witness: the large tier, configured with no block, served a request
\* through expansion and counted the hit.
C3_Witness ==
    /\ last.op = "allocate"
    /\ last.tier = "large"
    /\ last.hit
    /\ pool_count_of(config_, "large") = 0
    /\ stats_.large_pool_hits = 1
    /\ owns(pools["large"], last.ptr)

\* C4 (the claim as stated): every allocate(size) with size greater than the
\* large tier's block size that returns a pointer increments
\* direct_allocations by one, leaves the three hit counters unchanged and
\* records the pointer with the requested size in the direct-allocation map.
C4_Original ==
    [][(AllocateCall /\ last'.size > config_.large_block_size /\ last'.ptr # NULL)
       => /\ stats_'.direct_allocations = Wrap(stats_.direct_allocations + 1)
          /\ HitsUnchanged
          /\ last'.ptr \in DOMAIN direct_allocations_'
          /\ direct_allocations_'[last'.ptr].size = last'.size]_vars

\* C4 (amended): an allocate(size) with size greater than the block size of
\* every tier (small, medium and large), when the underlying allocation
\* succeeds, increments direct_allocations by one, leaves the three hit
\* counters unchanged and records the returned pointer with the requested
\* size in the direct-allocation map; when it fails the call returns null
\* and changes neither the counters nor the map.
C4_DirectBeyondEveryTier ==
    [][(AllocateCall /\ \A t \in TierSet : last'.size > block_size_of(config_, t))
       => IF last'.ptr # NULL
          THEN /\ stats_'.direct_allocations = Wrap(stats_.direct_allocations + 1)
               /\ HitsUnchanged
               /\ last'.ptr \in DOMAIN direct_allocations_'
               /\ direct_allocations_'[last'.ptr].size = last'.size
               /\ last'.ptr \notin DOMAIN direct_allocations_
               /\ \A t \in TierSet : ~owns(pools'[t], last'.ptr)
               /\ pools' = pools
          ELSE /\ stats_' = stats_
               /\ direct_allocations_' = direct_allocations_
               /\ pools' = pools]_vars

\* C4 witness: a request larger than every tier was served directly.
C4_Witness ==
    /\ last.op = "allocate"
    /\ \A t \in TierSet : last.size > block_size_of(config_, t)
    /\ last.ptr \in DOMAIN direct_allocations_
    /\ direct_allocations_[last.ptr].size = last.size
    /\ stats_.direct_allocations = 1


(***************************************************************************)
(* SpecTier: one BlockPool (the small tier of a pool whose other tiers     *)
(* hold no block) driven through acquire and release directly, on a heap   *)
(* of MaxTierAddr blocks.  nops counts the release calls; acquire is       *)
(* bounded by the heap.  last records the call, the pointer it returned or *)
(* was given, and the tier's block and free counts when it was made.       *)
(***************************************************************************)
TierConfigs ==
    [small_block_size : {BlockSmall}, medium_block_size : {BlockMedium},
     large_block_size : {BlockLarge}, small_pool_count : 0 .. MaxTierCount,
     medium_pool_count : {0}, large_pool_count : {0},
     alignment : {CACHE_LINE}, enable_statistics : {TRUE},
     zero_on_dealloc : {TRUE}, allow_expansion : BOOLEAN]

TierCall(op, ptr) ==
    [op |-> op, ptr |-> ptr,
     total_before |-> get_total_count(pools["small"]),
     free_before |-> get_free_count(pools["small"])]

InitTier ==
    /\ config_ \in TierConfigs
    /\ \E mp \in MemoryPoolNew([World0 EXCEPT !.heap = HeapOf(1 .. MaxTierAddr)], config_) :
          /\ heap = mp.w.heap
          /\ aa = mp.w.aa
          /\ tracker = mp.w.tr
          /\ aborted = mp.w.aborted
          /\ pools = mp.pools
          /\ direct_allocations_ = mp.direct
          /\ stats_ = mp.stats
    /\ held = {}
    /\ clean = TRUE
    /\ last = [op |-> "init", ptr |-> NULL, total_before |-> 0, free_before |-> 0]
    /\ nops = 0
    /\ AlignUnused
    /\ ConcUnused

\* small_pool_->acquire()
TierAcquire ==
    /\ \E r \in acquire(TheWorld, pools["small"]) :
          /\ SetWorld(r.w)
          /\ pools' = [pools EXCEPT !["small"] = r.bp]
          /\ held' = IF r.ptr = NULL THEN held ELSE held \cup {r.ptr}
          /\ last' = TierCall("acquire", r.ptr)
    /\ UNCHANGED <<config_, direct_allocations_, stats_, clean, nops, alignVars, concVars, trackVars, memory>>

\* small_pool_->release(ptr), for any pointer value
TierRelease(ptr) ==
    /\ nops < MaxTierReleases
    /\ pools' = [pools EXCEPT !["small"] = release(@, ptr)]
    /\ held' = held \ {ptr}
    /\ clean' = (clean /\ (ptr = NULL \/ ptr \in held))
    /\ last' = TierCall("release", ptr)
    /\ nops' = nops + 1
    /\ UNCHANGED <<worldVars, config_, direct_allocations_, stats_, alignVars, concVars, trackVars, memory>>

NextTier ==
    \/ TierAcquire
    \/ \E ptr \in 0 .. MaxTierAddr : TierRelease(ptr)

SpecTier == InitTier /\ [][NextTier]_vars

(***************************************************************************)
(* Claims checked under SpecTier.                                          *)
(***************************************************************************)
\* the last call was an acquire() that found the free-list empty with
\* expansion allowed
AcquiredByExpansion ==
    last.op = "acquire" /\ last.free_before = 0 /\ config_.allow_expansion

\* blocks the last call added to the tier
Added == get_total_count(pools["small"]) - last.total_before

\* max(1, floor(n / 4)) for the block count n the call found
WantedGrowth == IF last.total_before \div 4 >= 1 THEN last.total_before \div 4 ELSE 1

\* every block added by the last call is owned, and free unless it is the
\* one the call leased
GrowthWellFormed ==
    LET bp == pools["small"]
        new == (last.total_before + 1) .. get_total_count(bp)
    IN  /\ Added <= WantedGrowth
        /\ Added < WantedGrowth => Live(heap) = DOMAIN heap
        /\ \A i \in new : bp.blocks_[i].data \in Live(heap)
        /\ \A i \in new : \A j \in 1 .. get_total_count(bp) :
              bp.blocks_[i].data = bp.blocks_[j].data => i = j
        /\ \A i \in new : bp.blocks_[i].in_use <=> i = last.total_before + 1
        /\ bp.free_list_ = [k \in 1 .. (Added - 1) |-> last.total_before + 1 + k]

\* C5 (the claim as stated): an acquire() that finds the free-list empty
\* with expansion allowed grows the tier by max(1, floor(n / 4)) free blocks
\* (fewer only if the allocator fails), each in the owned set and the
\* free-list, and is then served from the tier.
C5_Original ==
    AcquiredByExpansion =>
        /\ GrowthWellFormed
        /\ last.ptr # NULL
        /\ last.ptr = pools["small"].blocks_[last.total_before + 1].data

\* C5 (amended): such an acquire() grows the tier by max(1, floor(n / 4))
\* free blocks, fewer only if the allocator fails, each in the owned set and
\* the free-list; it is served from the tier (with the first new block)
\* whenever at least one block was added, and returns null, the tier
\* unchanged, when the allocator fails on the first new block.
C5_GrowthThenServed ==
    AcquiredByExpansion =>
        /\ GrowthWellFormed
        /\ IF Added >= 1
           THEN /\ last.ptr # NULL
                /\ last.ptr = pools["small"].blocks_[last.total_before + 1].data
           ELSE /\ last.ptr = NULL
                /\ Live(heap) = DOMAIN heap

\* C5 witness: an acquire() found eight or more blocks, none free, and the
\* tier grew by two.
C5_Witness ==
    /\ AcquiredByExpansion
    /\ last.total_before >= 8
    /\ Added = 2
    /\ last.ptr # NULL
    /\ get_free_count(pools["small"]) = 1

\* a tier with no block grew by exactly one
C5_WitnessFromZero ==
    /\ AcquiredByExpansion
    /\ last.total_before = 0
    /\ Added = 1
    /\ last.ptr # NULL



(***************************************************************************)
(* SpecAlign: AlignedAllocator over a heap with machine addresses.         *)
(* Addresses and sizes are WordBits-bit words.  std::malloc hands out      *)
(* MallocAlign-aligned blocks inside the mapped range                      *)
(* [MallocAlign, HeapTop); nothing else is mapped, in particular not the   *)
(* addresses next to 0 and to 2^WordBits.                                  *)
(***************************************************************************)
\* alignof(std::max_align_t): the alignment std::malloc guarantees
MallocAlign == 16

MallocBases == {a \in MallocAlign .. HeapTop - 1 : a % MallocAlign = 0}

\* the addresses a block [raw, total] keeps other blocks away from
Occupied(r) == r.raw .. r.raw + Max(r.total, 1) - 1

\* std::malloc(n): any free, mapped, aligned range of n bytes; NULL when
\* there is none
malloc(res, n) ==
    LET fits == {raw \in MallocBases :
                    /\ raw + Max(n, 1) <= HeapTop
                    /\ \A r \in res :
                          Occupied(r) \cap Occupied([raw |-> raw, total |-> n]) = {}}
    IN  IF fits = {} THEN {NULL} ELSE fits

TheMachine ==
    [res |-> reservations, hdrs |-> headers, aa |-> aa, tr |-> tracker,
     aborted |-> aborted]

SetMachine(m) ==
    /\ reservations' = m.res
    /\ headers' = m.hdrs
    /\ aa' = m.aa
    /\ tracker' = m.tr
    /\ aborted' = m.aborted

\* AlignedAllocator::allocate after std::malloc returned raw: every outcome,
\* as [m, ptr, raw, total].  A header write that leaves the block is
\* undefined: outside the mapped range it faults, inside it either faults
\* or lands on whatever is there.
AlignAllocateFrom(m, size, alignment, raw, total) ==
    LET user_addr == align_up(Wrap(raw + HeaderSize), alignment)
        hdr == Wrap(user_addr - HeaderSize)
        m1 == [m EXCEPT !.res = @ \cup {[raw |-> raw, total |-> total]}]
        inside == hdr >= raw /\ hdr + HeaderSize <= raw + total
        mapped == hdr >= MallocAlign /\ hdr + HeaderSize <= HeapTop
        fault == [m |-> [m1 EXCEPT !.aborted = TRUE], ptr |-> NULL,
                  raw |-> raw, total |-> total]
        done == [m |-> [m1 EXCEPT
                          !.hdrs = MapPut(@, hdr,
                                          [raw_ptr |-> raw, size |-> size,
                                           alignment |-> alignment,
                                           magic |-> "ALIVE"]),
                          !.aa = CountAllocation(@, size),
                          !.tr = track_allocation(@, user_addr, size, alignment,
                                                  TagAligned)],
                 ptr |-> user_addr, raw |-> raw, total |-> total]
    IN  IF inside THEN {done}
        ELSE IF mapped THEN {fault, done}
        ELSE {fault}

\* AlignedAllocator::allocate with machine addresses: every outcome
AlignAllocateOutcomes(m, size, alignment) ==
    IF InvalidAlignment(alignment)
    THEN {[m |-> m, ptr |-> NULL, raw |-> NULL, total |-> 0]}
    ELSE LET eff == EffectiveAlignment(alignment)
             total_size == Wrap(size + eff + HeaderSize)
         IN  UNION {IF raw = NULL
                    THEN {[m |-> m, ptr |-> NULL, raw |-> NULL, total |-> total_size]}
                    ELSE AlignAllocateFrom(m, size, eff, raw, total_size)
                    : raw \in malloc(m.res, total_size)}

\* header->magic != MAGIC_NUMBER, negated
MagicValidOrFreed(magic) == magic \in {"ALIVE", "FREED"}

MagicValid(magic) == magic = "ALIVE"

\* bytes that never held a header, or were overwritten since
NoHeader == [raw_ptr |-> NULL, size |-> 0, alignment |-> 0, magic |-> "NONE"]

\* what deallocate can read at hdr.  The header of a live allocation reads
\* as written.  The header of a freed allocation lies in memory returned to
\* std::free: the read is undefined and gives the old bytes (magic
\* FREED_MAGIC) or whatever replaced them.  Any other address gives bytes
\* that are no header.
ReadHeader(m, hdr) ==
    IF hdr \notin DOMAIN m.hdrs THEN {NoHeader}
    ELSE IF m.hdrs[hdr].magic = "ALIVE" THEN {m.hdrs[hdr]}
    ELSE {m.hdrs[hdr], NoHeader}

\* AlignedAllocator::deallocate with machine addresses, header read as given
AlignDeallocateOutcome(m, ptr, header) ==
    IF ptr = NULL THEN m
    ELSE IF ~MagicValid(header.magic) THEN [m EXCEPT !.aborted = TRUE]
    ELSE LET hdr == Wrap(ptr - HeaderSize)
         IN  [m EXCEPT
                !.aa = CountDeallocation(@, header.size),
                !.tr = track_deallocation(@, ptr),
                !.hdrs = IF hdr \in DOMAIN @
                         THEN [@ EXCEPT ![hdr].magic = "FREED"]
                         ELSE @,
                !.res = {r \in @ : r.raw # header.raw_ptr}]

\* AlignedAllocator::deallocate with machine addresses: every outcome
AlignDeallocateOutcomes(m, ptr) ==
    {AlignDeallocateOutcome(m, ptr, header)
     : header \in ReadHeader(m, Wrap(ptr - HeaderSize))}

\* request sizes: small ones, and the ones at which size + alignment +
\* header passes the word
AlignSizes ==
    (0 .. MaxAlignSize) \cup {WordMod - 1, WordMod - 2 * HeaderSize + 1}

\* requested alignments: powers of two below, at and above the header
\* size; zero; values that are not powers of two
Alignments ==
    {1, MallocAlign, HeaderSize, CACHE_LINE}
    \cup {0, 3, CACHE_LINE - MallocAlign}

\* no MemoryPool is constructed in this specification
PoolUnused ==
    /\ config_ = [enable_statistics |-> FALSE]
    /\ pools = EmptyMap
    /\ direct_allocations_ = EmptyMap
    /\ stats_ = Statistics0
    /\ held = {}
    /\ clean = TRUE

AlignCall(op, size, alignment, r) ==
    [op |-> op, size |-> size, alignment |-> alignment, ptr |-> r.ptr,
     raw |-> r.raw, total |-> r.total]

InitAlign ==
    /\ PoolUnused
    /\ heap = HeapOf({})
    /\ reservations = {}
    /\ headers = EmptyMap
    /\ allocs = {}
    /\ aa = AA0
    /\ tracker = Tracker0
    /\ aborted = FALSE
    /\ last = [op |-> "init", size |-> 0, alignment |-> 0, ptr |-> NULL,
               raw |-> NULL, total |-> 0]
    /\ nops = 0
    /\ ConcUnused

\* AlignedAllocator::getInstance().allocate(size, alignment)
AlignAllocate(size, alignment) ==
    /\ ~aborted
    /\ nops < MaxAlignCalls
    /\ \E r \in AlignAllocateOutcomes(TheMachine, size, alignment) :
          /\ SetMachine(r.m)
          /\ allocs' = IF r.ptr = NULL THEN allocs
                       ELSE allocs \cup {[ptr |-> r.ptr, size |-> size,
                                          raw |-> r.raw, total |-> r.total]}
          /\ last' = AlignCall("allocate", size, alignment, r)
          /\ nops' = nops + 1
    /\ UNCHANGED <<heap, poolVars, held, clean, concVars, trackVars, memory>>

\* the pointers a caller can pass to deallocate: every pointer allocate ever
\* returned (live, or freed since), and one that it never returned; the
\* pointers never returned are interchangeable, the lowest stands for all
DeallocatePointers ==
    LET returned == {Wrap(h + HeaderSize) : h \in DOMAIN headers}
        foreign == {p \in MallocBases : p \notin returned}
    IN  returned \cup {p \in foreign : \A q \in foreign : p <= q}

\* AlignedAllocator::getInstance().deallocate(ptr)
AlignDeallocate(ptr) ==
    /\ ~aborted
    /\ ptr \in DeallocatePointers
    /\ \E m \in AlignDeallocateOutcomes(TheMachine, ptr) :
          /\ SetMachine(m)
          /\ allocs' = IF m.aborted THEN allocs
                       ELSE {a \in allocs : a.ptr # ptr}
    /\ last' = [op |-> "deallocate", size |-> 0, alignment |-> 0, ptr |-> ptr,
                raw |-> NULL, total |-> 0]
    /\ UNCHANGED <<heap, poolVars, held, clean, nops, concVars, trackVars, memory>>

NextAlign ==
    \/ \E size \in AlignSizes, alignment \in Alignments :
          AlignAllocate(size, alignment)
    \/ \E ptr \in DeallocatePointers : AlignDeallocate(ptr)

SpecAlign == InitAlign /\ [][NextAlign]_vars

(***************************************************************************)
(* Claims checked under SpecAlign.                                         *)
(***************************************************************************)
IsPowerOfTwo(a) == \E k \in 0 .. WordBits - 1 : a = 2 ^ k

\* the last call was a successful allocate(S, A) with S >= 1, A a power of two
AlignServed ==
    /\ last.op = "allocate"
    /\ last.ptr # NULL
    /\ last.size >= 1
    /\ IsPowerOfTwo(last.alignment)

\* C6: a successful allocate(S, A), A a power of two and S >= 1, returns P
\* with P mod A = 0; P is the lowest address >= base + header_size that is a
\* multiple of max(A, header_size); the header at P - header_size carries
\* magic ALIVE (and the base pointer and the size of the call).
C6_AlignedLowestWithHeader ==
    AlignServed =>
        LET P == last.ptr
            A == last.alignment
            Aeff == Max(A, HeaderSize)
            base == last.raw
        IN  /\ P % A = 0
            /\ P >= base + HeaderSize
            /\ P % Aeff = 0
            /\ \A q \in base + HeaderSize .. P - 1 : q % Aeff # 0
            /\ (P - HeaderSize) \in DOMAIN headers
            /\ headers[P - HeaderSize] =
                  [raw_ptr |-> base, size |-> last.size, alignment |-> Aeff,
                   magic |-> "ALIVE"]

\* a cache-line allocation whose block did not start on the boundary
C6_Witness ==
    /\ AlignServed
    /\ last.alignment = CACHE_LINE
    /\ last.ptr > last.raw + HeaderSize

UserBytes(a) == a.ptr .. a.ptr + a.size - 1

\* C7: for every live allocation with S >= 1 the header and the S user
\* bytes at P lie inside the block [base, base + total) reserved for the
\* call, total = (S + A' + header_size) mod 2^WordBits; the user bytes of
\* two live allocations are disjoint.
C7_UserBytesInsideReservation ==
    /\ \A a \in allocs :
          a.size >= 1 =>
             /\ a.ptr - HeaderSize >= a.raw
             /\ a.ptr + a.size <= a.raw + a.total
    /\ \A a, b \in allocs :
          a # b => UserBytes(a) \cap UserBytes(b) = {}

\* C8: allocate(S, A) with A zero or not a power of two returns null,
\* reserves nothing, writes no header, and leaves total_allocated_,
\* allocation_count_, peak_allocated_ and the tracker as they were.
C8_InvalidAlignmentRejected ==
    [][(last'.op = "allocate" /\ ~IsPowerOfTwo(last'.alignment)) =>
          /\ last'.ptr = NULL
          /\ reservations' = reservations
          /\ headers' = headers
          /\ aa' = aa
          /\ tracker' = tracker
          /\ ~aborted']_vars

\* a call with a non-zero alignment that is not a power of two, made while
\* an allocation is live and counted
C8_Witness ==
    /\ last.op = "allocate"
    /\ last.alignment # 0
    /\ ~IsPowerOfTwo(last.alignment)
    /\ last.ptr = NULL
    /\ allocs # {}
    /\ aa.allocation_count_ = 1
    /\ aa.peak_allocated_ >= 1

\* the magic at the header of the pointer the step passes to deallocate, as
\* it stood before the step
MagicBefore ==
    LET hdr == Wrap(last'.ptr - HeaderSize)
    IN  IF hdr \in DOMAIN headers THEN headers[hdr].magic ELSE "NONE"

\* C11: deallocate(ptr) with the header magic FREED (a second deallocate of
\* ptr) or anything else but ALIVE terminates the process and leaves the
\* counters, the tracker, the headers and the malloc blocks as they were;
\* with magic ALIVE it does not terminate and sets the magic to FREED.  A
\* header leaves ALIVE only for FREED, in the deallocate of its pointer, and
\* a FREED header changes only when a later allocate writes a new header
\* there.
C11_InvalidMagicTerminates ==
    [][/\ last'.op = "deallocate" =>
             /\ MagicBefore # "ALIVE" =>
                   /\ aborted'
                   /\ aa' = aa
                   /\ tracker' = tracker
                   /\ headers' = headers
                   /\ reservations' = reservations
             /\ MagicBefore = "ALIVE" =>
                   /\ ~aborted'
                   /\ headers'[Wrap(last'.ptr - HeaderSize)].magic = "FREED"
       /\ \A h \in DOMAIN headers :
             /\ (headers[h].magic = "ALIVE" /\ headers'[h].magic # "ALIVE") =>
                   /\ last'.op = "deallocate"
                   /\ last'.ptr = h + HeaderSize
                   /\ headers'[h].magic = "FREED"
             /\ (headers[h].magic = "FREED" /\ headers'[h] # headers[h]) =>
                   /\ last'.op = "allocate"
                   /\ headers'[h].magic = "ALIVE"]_vars

\* a second deallocate of a pointer, after the first one was counted
C11_Witness ==
    /\ aborted
    /\ last.op = "deallocate"
    /\ (last.ptr - HeaderSize) \in DOMAIN headers
    /\ headers[last.ptr - HeaderSize].magic = "FREED"
    /\ aa.total_deallocated_ >= 1
    /\ aa.allocation_count_ = 0

(***************************************************************************)
(* SpecConc: AlignedAllocator called from NumThreads threads.  Each step   *)
(* is one access to shared state: std::malloc / std::free, one atomic      *)
(* read-modify-write, load or store, one MemoryTracker call (which runs    *)
(* under the tracker's mutex).  The accesses are relaxed; each atomic      *)
(* cell has one modification order, which the steps follow.                *)
(***************************************************************************)
Threads == 1 .. NumThreads

ConcSizes == 1 .. MaxConcSize

Idle == [ptr |-> NULL, size |-> 0, current |-> 0, peak |-> 0]

AllocSteps == {"a_add", "a_count", "a_load", "a_cas", "a_track"}

DeallocSteps == {"d_sub", "d_dealloc", "d_count", "d_track", "d_free"}

ResetSteps == {"r_count", "r_peak", "r_dealloc"}

\* a thread is inside reset_statistics
Resetting == \E t \in Threads : pc[t] \in ResetSteps

Goto(t, step, locals) ==
    /\ pc' = [pc EXCEPT ![t] = step]
    /\ loc' = [loc EXCEPT ![t] = locals]

ConcFrame == UNCHANGED <<poolVars, held, clean, last, alignVars, trackVars, memory>>

InitConc ==
    /\ PoolUnused
    /\ AlignUnused
    /\ heap = HeapOf(1 .. MaxConcAddr)
    /\ aa = AA0
    /\ tracker = Tracker0
    /\ aborted = FALSE
    /\ last = NoCall
    /\ nops = 0
    /\ pc = [t \in Threads |-> "idle"]
    /\ loc = [t \in Threads |-> Idle]
    /\ owned = [t \in Threads |-> {}]
    /\ max_total = 0
    /\ reset_dirty = FALSE
    /\ TrackUnused
    /\ ZeroUnused

\* allocate(size, CACHE_LINE) up to the header write: std::malloc, then the
\* header in the new block; returns nullptr when std::malloc fails
ConcMalloc(t, size) ==
    /\ ~aborted
    /\ pc[t] = "idle"
    /\ nops < MaxConcCalls
    /\ nops' = nops + 1
    /\ \E p \in MallocResults(TheWorld) :
          IF p = NULL
          THEN UNCHANGED <<heap, pc, loc, reset_dirty>>
          ELSE /\ heap' = [heap EXCEPT ![p] = [magic |-> "ALIVE", size |-> size]]
               /\ Goto(t, "a_add", [Idle EXCEPT !.ptr = p, !.size = size])
               /\ reset_dirty' = (reset_dirty \/ Resetting)
    /\ UNCHANGED <<aa, tracker, aborted, owned, max_total>>
    /\ ConcFrame

\* size_t prev_total = total_allocated_.fetch_add(size)
ConcAddTotal(t) ==
    /\ pc[t] = "a_add"
    /\ aa' = [aa EXCEPT !.total_allocated_ = fetch_add(@, loc[t].size)]
    /\ max_total' = Max(max_total, aa'.total_allocated_)
    /\ Goto(t, "a_count",
            [loc[t] EXCEPT !.current = Wrap(aa.total_allocated_ + loc[t].size)])
    /\ UNCHANGED <<heap, tracker, aborted, owned, reset_dirty, nops>>
    /\ ConcFrame

\* allocation_count_.fetch_add(1)
ConcAddCount(t) ==
    /\ pc[t] = "a_count"
    /\ aa' = [aa EXCEPT !.allocation_count_ = fetch_add(@, 1)]
    /\ Goto(t, "a_load", loc[t])
    /\ UNCHANGED <<heap, tracker, aborted, owned, max_total, reset_dirty, nops>>
    /\ ConcFrame

\* update_peak_memory: size_t peak = peak_allocated_.load()
ConcLoadPeak(t) ==
    /\ pc[t] = "a_load"
    /\ Goto(t, "a_cas", [loc[t] EXCEPT !.peak = aa.peak_allocated_])
    /\ UNCHANGED <<heap, aa, tracker, aborted, owned, max_total, reset_dirty, nops>>
    /\ ConcFrame

\* update_peak_memory: one turn of while (current > peak) { if (CAS) break; }
ConcCasPeak(t) ==
    /\ pc[t] = "a_cas"
    /\ IF loc[t].current > loc[t].peak
       THEN LET r == compare_exchange_weak(aa.peak_allocated_, loc[t].peak,
                                           loc[t].current)
            IN  /\ aa' = [aa EXCEPT !.peak_allocated_ = r.value]
                /\ Goto(t, IF r.ok THEN "a_track" ELSE "a_cas",
                        [loc[t] EXCEPT !.peak = r.expected])
       ELSE /\ aa' = aa
            /\ Goto(t, "a_track", loc[t])
    /\ UNCHANGED <<heap, tracker, aborted, owned, max_total, reset_dirty, nops>>
    /\ ConcFrame

\* MemoryTracker::track_allocation, then return user_addr
ConcTrack(t) ==
    /\ pc[t] = "a_track"
    /\ tracker' = track_allocation(tracker, loc[t].ptr, loc[t].size,
                                   EffectiveAlignment(CACHE_LINE), TagAligned)
    /\ owned' = [owned EXCEPT ![t] = @ \cup {loc[t].ptr}]
    /\ Goto(t, "idle", Idle)
    /\ UNCHANGED <<heap, aa, aborted, max_total, reset_dirty, nops>>
    /\ ConcFrame

\* deallocate(ptr) of a pointer the thread holds: the magic test
ConcCheckMagic(t, ptr) ==
    /\ ~aborted
    /\ pc[t] = "idle"
    /\ nops < MaxConcCalls
    /\ ptr \in owned[t]
    /\ nops' = nops + 1
    /\ owned' = [owned EXCEPT ![t] = @ \ {ptr}]
    /\ IF heap[ptr].magic # "ALIVE"
       THEN aborted' = TRUE /\ UNCHANGED <<pc, loc>>
       ELSE /\ aborted' = aborted
            /\ Goto(t, "d_sub", [Idle EXCEPT !.ptr = ptr, !.size = heap[ptr].size])
    /\ UNCHANGED <<heap, aa, tracker, max_total, reset_dirty>>
    /\ ConcFrame

\* total_allocated_.fetch_sub(header->size)
ConcSubTotal(t) ==
    /\ pc[t] = "d_sub"
    /\ aa' = [aa EXCEPT !.total_allocated_ = fetch_sub(@, loc[t].size)]
    /\ max_total' = Max(max_total, aa'.total_allocated_)
    /\ Goto(t, "d_dealloc", loc[t])
    /\ UNCHANGED <<heap, tracker, aborted, owned, reset_dirty, nops>>
    /\ ConcFrame

\* total_deallocated_.fetch_add(header->size)
ConcAddDeallocated(t) ==
    /\ pc[t] = "d_dealloc"
    /\ aa' = [aa EXCEPT !.total_deallocated_ = fetch_add(@, loc[t].size)]
    /\ Goto(t, "d_count", loc[t])
    /\ UNCHANGED <<heap, tracker, aborted, owned, max_total, reset_dirty, nops>>
    /\ ConcFrame

\* allocation_count_.fetch_sub(1)
ConcSubCount(t) ==
    /\ pc[t] = "d_count"
    /\ aa' = [aa EXCEPT !.allocation_count_ = fetch_sub(@, 1)]
    /\ Goto(t, "d_track", loc[t])
    /\ UNCHANGED <<heap, tracker, aborted, owned, max_total, reset_dirty, nops>>
    /\ ConcFrame

\* MemoryTracker::track_deallocation(ptr)
ConcUntrack(t) ==
    /\ pc[t] = "d_track"
    /\ tracker' = track_deallocation(tracker, loc[t].ptr)
    /\ Goto(t, "d_free", loc[t])
    /\ UNCHANGED <<heap, aa, aborted, owned, max_total, reset_dirty, nops>>
    /\ ConcFrame

\* header->magic = FREED_MAGIC; std::free(raw_ptr)
ConcFree(t) ==
    /\ pc[t] = "d_free"
    /\ heap' = [heap EXCEPT ![loc[t].ptr].magic = "FREED"]
    /\ Goto(t, "idle", Idle)
    /\ UNCHANGED <<aa, tracker, aborted, owned, max_total, reset_dirty, nops>>
    /\ ConcFrame

\* reset_statistics: total_allocated_.store(0)
ConcResetTotal(t) ==
    /\ ~aborted
    /\ pc[t] = "idle"
    /\ nops < MaxConcCalls
    /\ nops' = nops + 1
    /\ aa' = [aa EXCEPT !.total_allocated_ = 0]
    /\ reset_dirty' = (reset_dirty \/ Live(heap) # {})
    /\ Goto(t, "r_count", Idle)
    /\ UNCHANGED <<heap, tracker, aborted, owned, max_total>>
    /\ ConcFrame

\* reset_statistics: allocation_count_.store(0)
ConcResetCount(t) ==
    /\ pc[t] = "r_count"
    /\ aa' = [aa EXCEPT !.allocation_count_ = 0]
    /\ Goto(t, "r_peak", Idle)
    /\ UNCHANGED <<heap, tracker, aborted, owned, max_total, reset_dirty, nops>>
    /\ ConcFrame

\* reset_statistics: peak_allocated_.store(0); the history of
\* total_allocated_ starts again at its present value
ConcResetPeak(t) ==
    /\ pc[t] = "r_peak"
    /\ aa' = [aa EXCEPT !.peak_allocated_ = 0]
    /\ max_total' = aa.total_allocated_
    /\ Goto(t, "r_dealloc", Idle)
    /\ UNCHANGED <<heap, tracker, aborted, owned, reset_dirty, nops>>
    /\ ConcFrame

\* reset_statistics: total_deallocated_.store(0), then return
ConcResetDeallocated(t) ==
    /\ pc[t] = "r_dealloc"
    /\ aa' = [aa EXCEPT !.total_deallocated_ = 0]
    /\ Goto(t, "idle", Idle)
    /\ UNCHANGED <<heap, tracker, aborted, owned, max_total, reset_dirty, nops>>
    /\ ConcFrame

NextConc ==
    \E t \in Threads :
        \/ \E size \in ConcSizes : ConcMalloc(t, size)
        \/ ConcAddTotal(t)
        \/ ConcAddCount(t)
        \/ ConcLoadPeak(t)
        \/ ConcCasPeak(t)
        \/ ConcTrack(t)
        \/ \E ptr \in 1 .. MaxConcAddr : ConcCheckMagic(t, ptr)
        \/ ConcSubTotal(t)
        \/ ConcAddDeallocated(t)
        \/ ConcSubCount(t)
        \/ ConcUntrack(t)
        \/ ConcFree(t)
        \/ ConcResetTotal(t)
        \/ ConcResetCount(t)
        \/ ConcResetPeak(t)
        \/ ConcResetDeallocated(t)

SpecConc == InitConc /\ [][NextConc]_vars

(***************************************************************************)
(* Claims checked under SpecConc.                                          *)
(***************************************************************************)
\* every call has returned
AllReturned == \A t \in Threads : pc[t] = "idle"

\* no allocate call is in flight
NoAllocateInFlight == \A t \in Threads : pc[t] \notin AllocSteps

\* the allocations returned to callers and not yet passed to deallocate
LiveAllocations == UNION {owned[t] : t \in Threads}

RECURSIVE SumSizes(_)
SumSizes(ptrs) ==
    IF ptrs = {} THEN 0
    ELSE LET p == CHOOSE q \in ptrs : TRUE
         IN  heap[p].size + SumSizes(ptrs \ {p})

\* C9: if reset_statistics never ran while an allocation existed (handed
\* out, or inside an allocate or deallocate call), then whenever every call
\* has returned total_allocated_ is the sum of the requested sizes of the
\* live allocations and allocation_count_ is their number; both are 0 when
\* none is live.
C9_CountersMatchLiveAllocations ==
    (AllReturned /\ ~reset_dirty) =>
        /\ aa.total_allocated_ = SumSizes(LiveAllocations)
        /\ aa.allocation_count_ = Cardinality(LiveAllocations)
        /\ (LiveAllocations = {} =>
              aa.total_allocated_ = 0 /\ aa.allocation_count_ = 0)

\* every thread holds an allocation, not all of size 1
C9_Witness ==
    /\ AllReturned
    /\ ~reset_dirty
    /\ \A t \in Threads : owned[t] # {}
    /\ aa.total_allocated_ > aa.allocation_count_

\* C10 as stated: whenever no allocate call is in flight, peak_allocated_
\* is the largest value total_allocated_ has taken since the last reset.
C10_Original ==
    NoAllocateInFlight => aa.peak_allocated_ = max_total

\* a step that is not reset_statistics' store to peak_allocated_
NotPeakReset == \A t \in Threads : ~(pc[t] = "r_peak" /\ pc'[t] = "r_dealloc")

\* a step of a deallocate call
DeallocateStep == \E t \in Threads : pc[t] \in DeallocSteps /\ pc'[t] # pc[t]

\* C10, amended: between resets peak_allocated_ never decreases and no step
\* of deallocate changes it; and, provided reset_statistics never ran while
\* an allocation existed, whenever no allocate call is in flight
\* peak_allocated_ is the largest value total_allocated_ has taken since
\* the last reset.
C10_PeakIsMaxOfTotals ==
    /\ [][/\ NotPeakReset => aa'.peak_allocated_ >= aa.peak_allocated_
          /\ DeallocateStep => aa'.peak_allocated_ = aa.peak_allocated_]_vars
    /\ []((NoAllocateInFlight /\ ~reset_dirty) =>
             aa.peak_allocated_ = max_total)

\* the peak outlives a deallocation
C10_Witness ==
    /\ AllReturned
    /\ ~reset_dirty
    /\ aa.total_deallocated_ >= 1
    /\ aa.peak_allocated_ > aa.total_allocated_
    /\ aa.peak_allocated_ = max_total

(***************************************************************************)
(* Further claims checked under Spec.                                      *)
(***************************************************************************)
\* the step is a call of reset()
ResetCall == nops' = nops + 1 /\ last'.op = "reset"

\* no tier block is leased
NoLease == \A t \in TierSet : InUseCount(pools[t]) = 0

\* the blocks std::malloc can hand out once reset has freed the direct
\* allocations: the heap blocks not in use, and the direct allocations
AvailableAtReset ==
    Cardinality({p \in DOMAIN heap : heap[p].magic # "ALIVE"})
    + Cardinality(DOMAIN direct_allocations_)

ConfiguredBlocks ==
    pool_count_of(config_, "small") + pool_count_of(config_, "medium")
    + pool_count_of(config_, "large")

-----------------------------------------------------------------------------
\* SpecTracker: the MemoryTracker called directly, as its public interface
\* allows: any pointer (null included), any size, any tag (the empty tag
\* included), in any order, with tracking switched on and off.

MaxTrackerOps == 3

TrackerPtrs == {NULL, 1, 2}
TrackerSizes == {0, WordMod - 1}
TrackerAlignments == {MallocAlign, CACHE_LINE}
TrackerTags == {"", TagAligned, TagPool}

TrackerCall(op, ptr, size, alignment, tag) ==
    [op |-> op, ptr |-> ptr, size |-> size, alignment |-> alignment,
     tag |-> tag, before |-> tracker]

TrackerFrame ==
    UNCHANGED <<heap, aa, aborted, poolVars, held, clean, alignVars, concVars, memory>>

InitTracker ==
    /\ PoolUnused
    /\ AlignUnused
    /\ ConcUnused
    /\ heap = HeapOf({})
    /\ aa = AA0
    /\ tracker = Tracker0
    /\ aborted = FALSE
    /\ last = [op |-> "init"]
    /\ nops = 0

\* MemoryTracker::getInstance().track_allocation(ptr, size, alignment, tag)
TrackAllocation(ptr, size, alignment, tag) ==
    /\ nops < MaxTrackerOps
    /\ tracker' = track_allocation(tracker, ptr, size, alignment, tag)
    /\ untagged_bytes' =
          IF tracker.enabled_ /\ ptr # NULL /\ tag = ""
          THEN untagged_bytes + size ELSE untagged_bytes
    /\ last' = TrackerCall("track_allocation", ptr, size, alignment, tag)
    /\ prev' = last
    /\ nops' = nops + 1
    /\ TrackerFrame

\* MemoryTracker::getInstance().track_deallocation(ptr)
TrackDeallocation(ptr) ==
    /\ nops < MaxTrackerOps
    /\ tracker' = track_deallocation(tracker, ptr)
    /\ untagged_bytes' =
          IF /\ tracker.enabled_
             /\ ptr # NULL
             /\ ptr \in DOMAIN tracker.allocations_
             /\ tracker.allocations_[ptr].tag = ""
          THEN untagged_bytes - tracker.allocations_[ptr].size
          ELSE untagged_bytes
    /\ last' = TrackerCall("track_deallocation", ptr, 0, 0, "")
    /\ prev' = last
    /\ nops' = nops + 1
    /\ TrackerFrame

\* MemoryTracker::getInstance().clear()
TrackerClearCall ==
    /\ nops < MaxTrackerOps
    /\ tracker' = TrackerClear(tracker)
    /\ untagged_bytes' = 0
    /\ last' = TrackerCall("clear", NULL, 0, 0, "")
    /\ prev' = last
    /\ nops' = nops + 1
    /\ TrackerFrame

\* MemoryTracker::getInstance().set_enabled(enabled)
SetEnabled(enabled) ==
    /\ nops < MaxTrackerOps
    /\ tracker' = [tracker EXCEPT !.enabled_ = enabled]
    /\ last' = TrackerCall("set_enabled", NULL, 0, 0, "")
    /\ prev' = last
    /\ nops' = nops + 1
    /\ UNCHANGED untagged_bytes
    /\ TrackerFrame

NextTracker ==
    \/ \E ptr \in TrackerPtrs, size \in TrackerSizes,
          alignment \in TrackerAlignments, tag \in TrackerTags :
          TrackAllocation(ptr, size, alignment, tag)
    \/ \E ptr \in TrackerPtrs : TrackDeallocation(ptr)
    \/ TrackerClearCall
    \/ \E enabled \in BOOLEAN : SetEnabled(enabled)

SpecTracker == InitTracker /\ [][NextTracker]_vars

\* two track_allocation calls in a row on one non-null pointer, the tracker
\* enabled at both
TrackedTwice ==
    /\ last.op = "track_allocation"
    /\ prev.op = "track_allocation"
    /\ last.ptr = prev.ptr
    /\ last.ptr # NULL
    /\ prev.before.enabled_
    /\ last.before.enabled_

\* C13: after two track_allocation calls on the same non-null pointer P with
\* no track_deallocation between them (tracker enabled), the ledger holds one
\* entry for P, carrying the second call's size, alignment and tag, and no
\* entry more than before the first call besides P's; the allocation count
\* has grown by 2 and current_allocated and total_bytes_allocated by the sum
\* of both sizes (in size_t arithmetic); the deallocation totals are as before.
C13_OverwriteCountsTwice ==
    TrackedTwice =>
        LET b == prev.before.stats_
            both == prev.size + last.size
        IN  /\ DOMAIN tracker.allocations_
                  = DOMAIN prev.before.allocations_ \cup {last.ptr}
            /\ tracker.allocations_[last.ptr]
                  = [size |-> last.size, alignment |-> last.alignment,
                     tag |-> last.tag]
            /\ tracker.stats_.total_allocations = Wrap(b.total_allocations + 2)
            /\ tracker.stats_.current_allocated = Wrap(b.current_allocated + both)
            /\ tracker.stats_.total_bytes_allocated
                  = Wrap(b.total_bytes_allocated + both)
            /\ tracker.stats_.total_deallocations = b.total_deallocations
            /\ tracker.stats_.total_bytes_deallocated = b.total_bytes_deallocated

\* the second call changed the size, the alignment and the tag of P's entry,
\* and another pointer was in the ledger already
C13_Witness ==
    /\ TrackedTwice
    /\ prev.size # last.size
    /\ prev.alignment # last.alignment
    /\ prev.tag # last.tag
    /\ prev.tag # ""
    /\ last.tag # ""
    /\ DOMAIN prev.before.allocations_ = {p \in TrackerPtrs : p # NULL} \ {last.ptr}
    /\ Cardinality(DOMAIN tracker.allocations_) = 2

RECURSIVE SumOver(_, _)
SumOver(m, keys) ==
    IF keys = {} THEN 0
    ELSE LET k == CHOOSE x \in keys : TRUE
         IN  m[k] + SumOver(m, keys \ {k})

\* the per-tag totals added up in size_t
SumOfTagTotals(st) ==
    Wrap(SumOver(st.allocations_by_tag, DOMAIN st.allocations_by_tag))

\* C14: after any sequence of track_allocation, track_deallocation and clear
\* calls, overwrites of a live pointer with another tag or size included, the
\* per-tag totals add up (in size_t arithmetic) to current_allocated less the
\* bytes that untagged track_allocation calls added and that are still
\* counted in current_allocated.
C14_TagTotalsMatchCurrent ==
    SumOfTagTotals(tracker.stats_)
        = Wrap(tracker.stats_.current_allocated - untagged_bytes)

\* an untagged entry was overwritten by a tagged one of another size and the
\* pointer was then deallocated: its untagged bytes stay in current_allocated
C14_Witness ==
    /\ last.op = "track_deallocation"
    /\ prev.op = "track_allocation"
    /\ prev.ptr = last.ptr
    /\ prev.tag # ""
    /\ prev.before.enabled_
    /\ last.ptr \in DOMAIN prev.before.allocations_
    /\ prev.before.allocations_[last.ptr].tag = ""
    /\ prev.before.allocations_[last.ptr].size # prev.size
    /\ last.ptr \notin DOMAIN tracker.allocations_
    /\ untagged_bytes > 0
    /\ tracker.stats_.current_allocated = untagged_bytes


-----------------------------------------------------------------------------
\* Further claims checked under SpecAlign

\* C20: allocate(0, A) returns null for every valid alignment A, and the
\* process continues.
C20_ZeroSizeReturnsNull ==
    [][(/\ last'.op = "allocate"
        /\ nops' = nops + 1
        /\ last'.size = 0
        /\ IsPowerOfTwo(last'.alignment)) =>
          /\ last'.ptr = NULL
          /\ ~aborted']_vars

-----------------------------------------------------------------------------
\* SpecWarm: one MemoryPool whose small tier is configured with enough
\* blocks for warmup() to lease some, called with allocate, deallocate,
\* reset and warmup in any order.

MaxWarmOps == 3

ConfigsWarm ==
    {[small_block_size |-> BlockSmall, medium_block_size |-> BlockMedium,
      large_block_size |-> BlockLarge,
      small_pool_count |-> 2 * CountSmall, medium_pool_count |-> CountMedium,
      large_pool_count |-> 0,
      alignment |-> CACHE_LINE, enable_statistics |-> es,
      zero_on_dealloc |-> TRUE, allow_expansion |-> ae]
     : es \in BOOLEAN, ae \in BOOLEAN}

InitWarm ==
    /\ config_ \in ConfigsWarm
    /\ \E mp \in MemoryPoolNew([World0 EXCEPT !.heap = HeapOf(1 .. MaxAddr)], config_) :
          /\ heap = mp.w.heap
          /\ aa = mp.w.aa
          /\ tracker = mp.w.tr
          /\ aborted = mp.w.aborted
          /\ pools = mp.pools
          /\ direct_allocations_ = mp.direct
          /\ stats_ = mp.stats
    /\ held = {}
    /\ clean = TRUE
    /\ last = NoCall
    /\ nops = 0
    /\ AlignUnused
    /\ ConcUnused

\* pool.warmup()
Warmup ==
    /\ ~aborted
    /\ nops < MaxOps
    /\ \E r \in warmup(TheWorld, config_, pools, direct_allocations_, stats_) :
          SetPool(r)
    /\ last' = [op |-> "warmup", size |-> 0, ptr |-> NULL,
                tier |-> NoTier, hit |-> FALSE]
    /\ nops' = nops + 1
    /\ UNCHANGED <<config_, held, clean, alignVars, concVars, trackVars, memory>>

\* MemoryPool::~MemoryPool: the body logs; then the members are destroyed in
\* reverse order of declaration.  direct_allocations_ holds plain pointers,
\* so destroying the map frees nothing; large_pool_, medium_pool_ and
\* small_pool_ destroy their BlockPool, whose blocks free their data.
MemoryPoolDestroy(w, pls) ==
    BlockPoolDestroy(BlockPoolDestroy(BlockPoolDestroy(w, pls["large"]),
                                      pls["medium"]),
                     pls["small"])

\* the pool object exists
PoolExists == pools # EmptyMap

\* the pool is destroyed (g_memory_pool.reset() in the bridge)
Destroy ==
    /\ ~aborted
    /\ nops < MaxOps
    /\ SetWorld(MemoryPoolDestroy(TheWorld, pools))
    /\ pools' = EmptyMap
    /\ direct_allocations_' = EmptyMap
    /\ last' = [op |-> "destroy", size |-> 0, ptr |-> NULL,
                tier |-> NoTier, hit |-> FALSE]
    /\ nops' = nops + 1
    /\ UNCHANGED <<config_, stats_, held, clean, alignVars, concVars, trackVars, memory>>

\* a call is made on the pool while it exists
CanCall == nops < MaxWarmOps /\ PoolExists

WarmAllocate(size) == CanCall /\ Allocate(size)

WarmDeallocate(ptr) == CanCall /\ Deallocate(ptr)

WarmReset == CanCall /\ Reset

WarmWarmup == CanCall /\ Warmup

WarmDestroy == CanCall /\ Destroy

NextWarm ==
    \/ \E size \in Sizes : WarmAllocate(size)
    \/ \E ptr \in {NULL} \cup Addr : WarmDeallocate(ptr)
    \/ WarmReset
    \/ WarmWarmup
    \/ WarmDestroy

SpecWarm == InitWarm /\ [][NextWarm]_vars

\* the data pointers of a tier's blocks, in the order of blocks_
BlockData(bp) == [i \in 1 .. Len(bp.blocks_) |-> bp.blocks_[i].data]

\* C19: between two reset() calls the block count of each tier never
\* decreases: while the pool exists, every call other than reset (allocate
\* with or without expansion, deallocate, warmup) leaves each tier with the
\* blocks it had, in place, possibly followed by new ones, and none of them
\* has been freed.
C19_TiersNeverShrink ==
    [][(nops' = nops + 1 /\ last'.op \notin {"reset", "destroy"}) =>
          \A t \in TierSet :
             /\ get_total_count(pools'[t]) >= get_total_count(pools[t])
             /\ SubSeq(BlockData(pools'[t]), 1, get_total_count(pools[t]))
                   = BlockData(pools[t])
             /\ \A i \in 1 .. get_total_count(pools[t]) :
                   heap'[pools[t].blocks_[i].data].magic = "ALIVE"]_vars

\* a warmup that found every small block leased, made the small tier expand,
\* and gave its block back: the tier holds more blocks than configured
C19_Witness ==
    /\ last.op = "warmup"
    /\ get_total_count(pools["small"]) > pool_count_of(config_, "small")
    /\ InUseCount(pools["small"]) = pool_count_of(config_, "small")
    /\ get_free_count(pools["small"]) >= 1

\* C18: destroying a MemoryPool releases every block of its tiers and every
\* direct allocation still in its direct-allocation map, so that
\* AlignedAllocator's total_allocated and allocation_count are back at the
\* values they had before the pool was constructed.
C18_DestroyReleasesEverything ==
    [][(nops' = nops + 1 /\ last'.op = "destroy") =>
          /\ aa'.total_allocated_ = AA0.total_allocated_
          /\ aa'.allocation_count_ = AA0.allocation_count_
          /\ \A p \in DOMAIN heap' : heap'[p].magic # "ALIVE"]_vars

-----------------------------------------------------------------------------
\* SpecLock: threads inside MemoryPool::allocate, deallocate, get_statistics,
\* warmup and reset, on pool instances that share the one MemoryTracker.
\* A step is the construction of one std::lock_guard or the code that runs
\* up to the next one.  Only the locks and who holds them are kept: the
\* outcome of a test on pool data (free list empty, std::malloc failed,
\* which tier owns the pointer, a direct allocation is left) is any of the
\* outcomes the test has.  pc[t] is the position of thread t, loc[t] its
\* locals, of which held is the sequence of mutexes its live lock_guards
\* hold, oldest first.

LockThreads == {1, 2}
PoolInstances == {1, 2}

\* BlockPool::mutex_ of a tier, direct_mutex_ and stats_mutex_ of a pool,
\* and MemoryTracker::mutex_
TierLock(p, t) == <<p, t>>
DirectLock(p) == <<p, "direct">>
StatsLock(p) == <<p, "stats">>
TrackerMutex == <<0, "tracker">>

LockIdle ==
    [op |-> "none", pool |-> 0, tier |-> NoTier, home |-> NoTier, i |-> 0,
     ret |-> "done", warm |-> FALSE, held |-> <<>>]

Range(s) == {s[i] : i \in 1 .. Len(s)}

HeldSet(t) == Range(loc[t].held)

IsFree(l) == \A t \in LockThreads : l \notin HeldSet(t)

Holder(l) == CHOOSE t \in LockThreads : l \in HeldSet(t)

\* a lock_guard whose destructor leaves the mutex locked
Without_still_locked(guards, ls) == guards

\* the guards a thread still holds once the lock_guards on ls go out of scope
Without(guards, ls) == SelectSeq(guards, LAMBDA l : l \notin ls)

\* allocate, lines 221-225: lock(direct_mutex_), then stats_lock(stats_mutex_)
DirectRegisterReversed(p) == <<StatsLock(p), DirectLock(p)>>

DirectRegisterOrder(p) == <<DirectLock(p), StatsLock(p)>>

\* the mutexes released where BlockPool::release returns
release_keeps_lock(p, t) == {}

release_unlock(p, t) == {TierLock(p, t)}

LockLabels ==
    {"acquire_lock", "owns_lock", "release_lock", "reg_lock1", "reg_lock2",
     "dmap_lock", "reset_dlock", "st_lock", "tr_lock"}

\* the mutex the lock_guard at pc[t] is constructed on
Wanted(t) ==
    LET l == loc[t] IN
    CASE pc[t] = "acquire_lock" -> TierLock(l.pool, l.tier)
      [] pc[t] = "owns_lock" -> TierLock(l.pool, Tiers[l.i])
      [] pc[t] = "release_lock" -> TierLock(l.pool, l.tier)
      [] pc[t] = "reg_lock1" -> DirectRegisterOrder(l.pool)[1]
      [] pc[t] = "reg_lock2" -> DirectRegisterOrder(l.pool)[2]
      [] pc[t] = "dmap_lock" -> DirectLock(l.pool)
      [] pc[t] = "reset_dlock" -> DirectLock(l.pool)
      [] pc[t] = "st_lock" -> StatsLock(l.pool)
      [] pc[t] = "tr_lock" -> TrackerMutex

\* the code that runs once the lock_guard at a position holds its mutex
AfterLock(label) ==
    CASE label = "acquire_lock" -> "acquire_body"
      [] label = "owns_lock" -> "owns_body"
      [] label = "release_lock" -> "release_body"
      [] label = "reg_lock1" -> "reg_write"
      [] label = "reg_lock2" -> "reg_count"
      [] label = "dmap_lock" -> "dmap_body"
      [] label = "reset_dlock" -> "reset_free"
      [] label = "st_lock" -> "st_body"
      [] label = "tr_lock" -> "tr_body"

At(t, label) == ~aborted /\ pc[t] = label

LockGo(t, label, locals) ==
    /\ pc' = [pc EXCEPT ![t] = label]
    /\ loc' = [loc EXCEPT ![t] = locals]

LockFrame ==
    UNCHANGED <<heap, aa, tracker, config_, pools, direct_allocations_, stats_,
                held, clean, last, nops, alignVars, owned, max_total,
                reset_dirty, trackVars, memory>>

\* a subroutine entered with loc[t].ret set returns there; otherwise the
\* call returns, and warmup goes on to deallocate what its allocate returned
Continue(t, locals) ==
    IF locals.ret = "done"
    THEN IF locals.warm /\ locals.op = "allocate" /\ locals.home # NoTier
         THEN LockGo(t, "owns_lock",
                     [LockIdle EXCEPT !.op = "deallocate", !.pool = locals.pool,
                                      !.home = locals.home, !.i = 1])
         ELSE LockGo(t, "idle", LockIdle)
    ELSE LockGo(t, locals.ret, [locals EXCEPT !.ret = "done"])

InitLock ==
    /\ config_ \in {[enable_statistics |-> es] : es \in BOOLEAN}
    /\ pools = EmptyMap
    /\ direct_allocations_ = EmptyMap
    /\ stats_ = Statistics0
    /\ held = {}
    /\ clean = TRUE
    /\ AlignUnused
    /\ TrackUnused
    /\ ZeroUnused
    /\ heap = HeapOf({})
    /\ aa = AA0
    /\ tracker = Tracker0
    /\ aborted = FALSE
    /\ last = NoCall
    /\ nops = 0
    /\ pc = [t \in LockThreads |-> "idle"]
    /\ loc = [t \in LockThreads |-> LockIdle]
    /\ owned = EmptyMap
    /\ max_total = 0
    /\ reset_dirty = FALSE

\* pool.allocate(size), size > 0: select_pool gives a tier or none
CallAllocate(t, p, tier) ==
    /\ At(t, "idle")
    /\ LockGo(t, IF tier = NoTier THEN "direct_malloc" ELSE "acquire_lock",
              [LockIdle EXCEPT !.op = "allocate", !.pool = p, !.tier = tier])
    /\ UNCHANGED aborted /\ LockFrame

\* pool.warmup(): allocate(block size of a tier), then deallocate of the
\* pointer it returned
CallWarmup(t, p, tier) ==
    /\ At(t, "idle")
    /\ LockGo(t, "acquire_lock",
              [LockIdle EXCEPT !.op = "allocate", !.pool = p, !.tier = tier,
                               !.warm = TRUE])
    /\ UNCHANGED aborted /\ LockFrame

\* pool.deallocate(ptr), ptr non-null: a block of tier home, a direct
\* allocation, or a pointer the pool does not know
CallDeallocate(t, p, home) ==
    /\ At(t, "idle")
    /\ LockGo(t, "owns_lock",
              [LockIdle EXCEPT !.op = "deallocate", !.pool = p, !.home = home,
                               !.i = 1])
    /\ UNCHANGED aborted /\ LockFrame

\* pool.get_statistics()
CallGetStatistics(t, p) ==
    /\ At(t, "idle")
    /\ LockGo(t, "st_lock", [LockIdle EXCEPT !.op = "get_statistics", !.pool = p])
    /\ UNCHANGED aborted /\ LockFrame

\* pool.reset()
CallReset(t, p) ==
    /\ At(t, "idle")
    /\ LockGo(t, "reset_dlock", [LockIdle EXCEPT !.op = "reset", !.pool = p])
    /\ UNCHANGED aborted /\ LockFrame

\* std::lock_guard<std::mutex> lock(m): blocks until m is free
LockGuard(t) ==
    /\ ~aborted
    /\ pc[t] \in LockLabels
    /\ IsFree(Wanted(t))
    /\ LockGo(t, AfterLock(pc[t]), [loc[t] EXCEPT !.held = Append(@, Wanted(t))])
    /\ UNCHANGED aborted /\ LockFrame

\* BlockPool::acquire with a free block, one that was free on entry or the
\* one expand_pool has just pushed: pop it, unlock, and count the hit
AcquirePop(t) ==
    /\ ~aborted
    /\ pc[t] \in {"acquire_body", "expand_push"}
    /\ LockGo(t, "st_lock",
              [loc[t] EXCEPT !.held = Without(@, {TierLock(loc[t].pool, loc[t].tier)}),
                             !.home = loc[t].tier, !.ret = "update"])
    /\ UNCHANGED aborted /\ LockFrame

\* BlockPool::acquire with the free list empty: expand_pool allocates a
\* block (AlignedAllocator::allocate records it in the tracker), or the
\* tier stays empty and acquire returns null
AcquireEmpty(t) ==
    /\ At(t, "acquire_body")
    /\ \/ LockGo(t, "tr_lock", [loc[t] EXCEPT !.ret = "expand_push"])
       \/ LockGo(t, "direct_malloc",
                 [loc[t] EXCEPT !.held = Without(@, {TierLock(loc[t].pool, loc[t].tier)})])
    /\ UNCHANGED aborted /\ LockFrame

\* the fallback AlignedAllocator::allocate: null, or a block it records in
\* the tracker
DirectMalloc(t) ==
    /\ At(t, "direct_malloc")
    /\ \/ Continue(t, loc[t])
       \/ LockGo(t, "tr_lock", [loc[t] EXCEPT !.ret = "reg_lock1"])
    /\ UNCHANGED aborted /\ LockFrame

\* direct_allocations_[ptr] = {ptr, size}
RegWrite(t) ==
    /\ At(t, "reg_write")
    /\ LockGo(t, "reg_lock2", [loc[t] EXCEPT !.home = "direct"])
    /\ UNCHANGED aborted /\ LockFrame

\* stats_.direct_allocations++; both guards go out of scope
RegCount(t) ==
    /\ At(t, "reg_count")
    /\ LockGo(t, "update",
              [loc[t] EXCEPT !.held = Without(@, Range(DirectRegisterOrder(loc[t].pool)))])
    /\ UNCHANGED aborted /\ LockFrame

\* update_statistics: nothing without enable_statistics; what follows it is
\* the end of deallocate's direct branch or the tracker call
Update(t) ==
    /\ At(t, "update")
    /\ LET after == IF loc[t].op = "deallocate" /\ DirectLock(loc[t].pool) \in HeldSet(t)
                    THEN "dmap_unlock" ELSE "tr_lock"
       IN  IF config_.enable_statistics
           THEN LockGo(t, "st_lock", [loc[t] EXCEPT !.ret = after])
           ELSE LockGo(t, after, loc[t])
    /\ UNCHANGED aborted /\ LockFrame

\* the code under stats_mutex_, to the end of its guard's scope
StatsBody(t) ==
    /\ At(t, "st_body")
    /\ Continue(t, [loc[t] EXCEPT !.held = Without(@, {StatsLock(loc[t].pool)})])
    /\ UNCHANGED aborted /\ LockFrame

\* track_allocation / track_deallocation under MemoryTracker::mutex_
TrackerBody(t) ==
    /\ At(t, "tr_body")
    /\ Continue(t, [loc[t] EXCEPT !.held = Without(@, {TrackerMutex})])
    /\ UNCHANGED aborted /\ LockFrame

\* BlockPool::owns returned: release on this tier, the next tier, or the
\* direct-allocation map
OwnsBody(t) ==
    /\ At(t, "owns_body")
    /\ LET l == loc[t]
           unlocked == Without(l.held, {TierLock(l.pool, Tiers[l.i])})
       IN  IF l.home = Tiers[l.i]
           THEN LockGo(t, "release_lock",
                       [l EXCEPT !.held = unlocked, !.tier = Tiers[l.i]])
           ELSE IF l.i < Len(Tiers)
           THEN LockGo(t, "owns_lock", [l EXCEPT !.held = unlocked, !.i = l.i + 1])
           ELSE LockGo(t, "dmap_lock", [l EXCEPT !.held = unlocked])
    /\ UNCHANGED aborted /\ LockFrame

\* BlockPool::release: the block goes back on the free list
ReleaseBody(t) ==
    /\ At(t, "release_body")
    /\ LockGo(t, "update",
              [loc[t] EXCEPT !.held = Without(@, release_unlock(loc[t].pool, loc[t].tier))])
    /\ UNCHANGED aborted /\ LockFrame

\* deallocate's direct branch: the entry is erased and the block freed
\* (AlignedAllocator::deallocate calls track_deallocation), or the pointer
\* is unknown and the guard goes out of scope
DmapBody(t) ==
    /\ At(t, "dmap_body")
    /\ IF loc[t].home = "direct"
       THEN LockGo(t, "tr_lock", [loc[t] EXCEPT !.ret = "update"])
       ELSE LockGo(t, "tr_lock",
                   [loc[t] EXCEPT !.held = Without(@, {DirectLock(loc[t].pool)})])
    /\ UNCHANGED aborted /\ LockFrame

\* the end of deallocate's direct branch
DmapUnlock(t) ==
    /\ At(t, "dmap_unlock")
    /\ LockGo(t, "tr_lock",
              [loc[t] EXCEPT !.held = Without(@, {DirectLock(loc[t].pool)})])
    /\ UNCHANGED aborted /\ LockFrame

\* reset, lines 288-296: one more direct allocation is freed, or the map is
\* cleared and the guard goes out of scope
ResetFree(t) ==
    /\ At(t, "reset_free")
    /\ \/ LockGo(t, "tr_lock", [loc[t] EXCEPT !.ret = "reset_free"])
       \/ LockGo(t, "reset_build",
                 [loc[t] EXCEPT !.held = Without(@, {DirectLock(loc[t].pool)}),
                                !.i = 1])
    /\ UNCHANGED aborted /\ LockFrame

\* make_unique<BlockPool>: one more block is allocated, or the new tier is
\* complete
ResetBuild(t) ==
    /\ At(t, "reset_build")
    /\ \/ LockGo(t, "tr_lock", [loc[t] EXCEPT !.ret = "reset_build"])
       \/ LockGo(t, "reset_assign", loc[t])
    /\ UNCHANGED aborted /\ LockFrame

\* thread u is inside a method of tier of pool p
InsideTier(u, p, tier) ==
    /\ loc[u].pool = p
    /\ \/ pc[u] \in {"acquire_lock", "acquire_body", "expand_push",
                     "release_lock", "release_body"} /\ loc[u].tier = tier
       \/ pc[u] \in {"tr_lock", "tr_body"} /\ loc[u].ret = "expand_push"
          /\ loc[u].tier = tier
       \/ pc[u] \in {"owns_lock", "owns_body"} /\ Tiers[loc[u].i] = tier

\* small_pool_ = ... : the tier is replaced with no lock taken.  With a
\* thread inside the old tier this destroys a BlockPool in use, which is
\* undefined: the process dies, or goes on.  The old mutex and the new one
\* are kept under the tier's one name.
ResetAssign(t) ==
    /\ At(t, "reset_assign")
    /\ LockGo(t, "reset_destroy", loc[t])
    /\ IF \E u \in LockThreads \ {t} : InsideTier(u, loc[t].pool, Tiers[loc[t].i])
       THEN aborted' \in BOOLEAN
       ELSE aborted' = FALSE
    /\ LockFrame

\* ~BlockPool: one more block of the old tier is freed, or none is left and
\* reset goes on to the next tier or to stats_ = Statistics()
ResetDestroy(t) ==
    /\ At(t, "reset_destroy")
    /\ \/ LockGo(t, "tr_lock", [loc[t] EXCEPT !.ret = "reset_destroy"])
       \/ IF loc[t].i < Len(Tiers)
          THEN LockGo(t, "reset_build", [loc[t] EXCEPT !.i = loc[t].i + 1])
          ELSE LockGo(t, "st_lock", loc[t])
    /\ UNCHANGED aborted /\ LockFrame

NextLock ==
    \/ \E t \in LockThreads, p \in PoolInstances, tier \in TierSet \cup {NoTier} :
          CallAllocate(t, p, tier)
    \/ \E t \in LockThreads, p \in PoolInstances, tier \in TierSet :
          CallWarmup(t, p, tier)
    \/ \E t \in LockThreads, p \in PoolInstances,
          home \in TierSet \cup {"direct", "unknown"} : CallDeallocate(t, p, home)
    \/ \E t \in LockThreads, p \in PoolInstances : CallGetStatistics(t, p)
    \/ \E t \in LockThreads, p \in PoolInstances : CallReset(t, p)
    \/ \E t \in LockThreads : LockGuard(t)
    \/ \E t \in LockThreads : AcquirePop(t)
    \/ \E t \in LockThreads : AcquireEmpty(t)
    \/ \E t \in LockThreads : DirectMalloc(t)
    \/ \E t \in LockThreads : RegWrite(t)
    \/ \E t \in LockThreads : RegCount(t)
    \/ \E t \in LockThreads : Update(t)
    \/ \E t \in LockThreads : StatsBody(t)
    \/ \E t \in LockThreads : TrackerBody(t)
    \/ \E t \in LockThreads : OwnsBody(t)
    \/ \E t \in LockThreads : ReleaseBody(t)
    \/ \E t \in LockThreads : DmapBody(t)
    \/ \E t \in LockThreads : DmapUnlock(t)
    \/ \E t \in LockThreads : ResetFree(t)
    \/ \E t \in LockThreads : ResetBuild(t)
    \/ \E t \in LockThreads : ResetAssign(t)
    \/ \E t \in LockThreads : ResetDestroy(t)

SpecLock == InitLock /\ [][NextLock]_vars

\* thread t is blocked in a lock_guard constructor
Waiting(t) == ~aborted /\ pc[t] \in LockLabels /\ ~IsFree(Wanted(t))

\* a set of threads each waiting for a mutex held by a thread of the set
WaitCycle ==
    \E S \in (SUBSET LockThreads) \ {{}} :
       \A t \in S : Waiting(t) /\ Holder(Wanted(t)) \in S

\* an order on the mutexes: tier and direct-map mutexes first, then the
\* statistics mutex and the tracker's
LockRank(l) ==
    CASE l[2] \in TierSet -> 1
      [] l[2] = "direct" -> 1
      [] l[2] = "stats" -> 2
      [] l[2] = "tracker" -> 2

\* every mutex t holds was taken after those of lower rank only, and so is
\* the one it is about to take
AcquiresUpward(t) ==
    /\ \A i, j \in 1 .. Len(loc[t].held) :
          i < j => LockRank(loc[t].held[i]) < LockRank(loc[t].held[j])
    /\ (~aborted /\ pc[t] \in LockLabels) =>
          \A l \in HeldSet(t) : LockRank(l) < LockRank(Wanted(t))

\* C15: no interleaving of concurrent allocate, deallocate, get_statistics,
\* warmup and reset calls, on one pool or on several sharing the tracker,
\* reaches a state in which a set of threads each wait for a lock held by
\* another thread of the set; the acquisition order over tier locks,
\* direct-map lock, statistics lock and tracker lock is acyclic (every
\* thread takes its locks in strictly increasing rank).
C15_NoLockCycle ==
    /\ ~WaitCycle
    /\ \A t \in LockThreads : AcquiresUpward(t)

\* a thread holding a tier lock (expanding) waits for the tracker's lock,
\* which is held by a thread that holds the direct-map lock of another pool
C15_Witness ==
    \E t, u \in LockThreads :
       /\ Waiting(t)
       /\ Wanted(t) = TrackerMutex
       /\ TierLock(loc[t].pool, loc[t].tier) \in HeldSet(t)
       /\ Holder(TrackerMutex) = u
       /\ DirectLock(loc[u].pool) \in HeldSet(u)
       /\ loc[u].pool # loc[t].pool

TierOrDirect(t) == {l \in HeldSet(t) : l[2] \in TierSet \cup {"direct"}}

InAllocateOrDeallocate(t) == loc[t].op \in {"allocate", "deallocate"}

\* C16 as stated: during allocate or deallocate a thread holds at most one
\* of the tier locks and the direct-map lock, while holding it the only
\* other lock it holds is the tracker's, and the direct-map lock and the
\* statistics lock are never held at the same time.
C16_Original ==
    \A t \in LockThreads :
       InAllocateOrDeallocate(t) =>
          /\ Cardinality(TierOrDirect(t)) <= 1
          /\ TierOrDirect(t) # {} =>
                HeldSet(t) \ TierOrDirect(t) \subseteq {TrackerMutex}
          /\ ~({DirectLock(loc[t].pool), StatsLock(loc[t].pool)} \subseteq HeldSet(t))

\* C16, amended: during allocate or deallocate a thread holds at most one of
\* the tier locks and the direct-map lock of its pool; while it holds a tier
\* lock the only other lock it holds is the tracker's; while it holds the
\* direct-map lock it holds besides it nothing, the statistics lock, or the
\* tracker's lock; the statistics lock and the tracker's lock are never held
\* together, and no lock of another pool is held.
C16_AtMostOneTierOrDirectLock ==
    \A t \in LockThreads :
       InAllocateOrDeallocate(t) =>
          LET others == HeldSet(t) \ TierOrDirect(t) IN
          /\ Cardinality(TierOrDirect(t)) <= 1
          /\ (\E l \in TierOrDirect(t) : l[2] \in TierSet) =>
                others \subseteq {TrackerMutex}
          /\ DirectLock(loc[t].pool) \in HeldSet(t) =>
                others \in {{}, {StatsLock(loc[t].pool)}, {TrackerMutex}}
          /\ others \in {{}, {StatsLock(loc[t].pool)}, {TrackerMutex}}
          /\ \A l \in HeldSet(t) : l = TrackerMutex \/ l[1] = loc[t].pool

\* one thread in allocate holds the direct-map lock and the statistics lock
\* while another in deallocate holds a direct-map lock and the tracker's
C16_Witness ==
    \E t, u \in LockThreads :
       /\ loc[t].op = "allocate"
       /\ loc[t].held = <<DirectLock(loc[t].pool), StatsLock(loc[t].pool)>>
       /\ loc[u].op = "deallocate"
       /\ loc[u].held = <<DirectLock(loc[u].pool), TrackerMutex>>

\* the mutexes of what the step of t at pc[t] writes: a tier's blocks_ and
\* free_list_, direct_allocations_, stats_, the tracker's ledger
WriteLocks(t) ==
    LET l == loc[t] IN
    CASE pc[t] \in {"acquire_body", "expand_push", "release_body"}
            -> {TierLock(l.pool, l.tier)}
      [] pc[t] = "reset_assign" -> {TierLock(l.pool, Tiers[l.i])}
      [] pc[t] \in {"reg_write", "dmap_body", "reset_free"} -> {DirectLock(l.pool)}
      [] pc[t] = "reg_count" -> {StatsLock(l.pool)}
      [] pc[t] = "st_body" /\ l.op # "get_statistics" -> {StatsLock(l.pool)}
      [] pc[t] = "tr_body" -> {TrackerMutex}
      [] OTHER -> {}

Stepped(t) == pc'[t] # pc[t] \/ loc'[t] # loc[t]

\* C17: every mutation of a tier's block set and free list, of the
\* direct-allocation map, of the Statistics and of the tracker ledger is made
\* by a thread that holds that resource's own lock, expansion and reset's
\* replacement of the tiers included.
C17_MutationsUnderOwnLock ==
    [][\A t \in LockThreads : Stepped(t) => WriteLocks(t) \subseteq HeldSet(t)]_vars

-----------------------------------------------------------------------------
\* Further claims checked under SpecWarm

\* the pointer is known to the pool: a block of a tier or a key of
\* direct_allocations_
KnownPointer(ptr) ==
    \/ \E t \in TierSet : \E i \in 1 .. Len(pools[t].blocks_) :
          pools[t].blocks_[i].data = ptr
    \/ ptr \in DOMAIN direct_allocations_

\* C21: deallocate(ptr) with a non-null ptr that no tier owns and that is
\* not in the direct-allocation map leaves all tiers, the direct-allocation
\* map and the Statistics unchanged and does not end the process.
C21_UnknownPointerIgnored ==
    [][(/\ nops' = nops + 1
        /\ last'.op = "deallocate"
        /\ last'.ptr # NULL
        /\ ~KnownPointer(last'.ptr)) =>
          /\ pools' = pools
          /\ direct_allocations_' = direct_allocations_
          /\ stats_' = stats_
          /\ ~aborted']_vars

\* a pointer the pool does not know was deallocated after allocations were
\* counted; no deallocation was counted
C21_Witness ==
    /\ last.op = "deallocate"
    /\ last.ptr # NULL
    /\ PoolExists
    /\ ~KnownPointer(last.ptr)
    /\ last.ptr \notin held
    /\ config_.enable_statistics
    /\ stats_.allocation_count = 2
    /\ stats_.deallocation_count = 0
    /\ stats_.current_usage > 0

-----------------------------------------------------------------------------
\* Further claims checked under Spec

\* the call was served by the direct path: the pointer is a new key of
\* direct_allocations_ recorded with the requested size, every other entry
\* is as before, and direct_allocations went up by one
ServedDirectly ==
    /\ last'.ptr \notin DOMAIN direct_allocations_
    /\ DOMAIN direct_allocations_' = DOMAIN direct_allocations_ \cup {last'.ptr}
    /\ direct_allocations_'[last'.ptr] = [ptr |-> last'.ptr, size |-> last'.size]
    /\ \A p \in DOMAIN direct_allocations_ :
          direct_allocations_'[p] = direct_allocations_[p]
    /\ stats_'.direct_allocations = stats_.direct_allocations + 1
    /\ stats_'.cache_hits = stats_.cache_hits
    /\ pools' = pools

\* the selected tier cannot serve the request: its free-list is empty and
\* it may not expand
TierExhausted(size) ==
    LET t == select_pool(config_, size)
    IN  /\ t # NoTier
        /\ pools[t].free_list_ = <<>>
        /\ ~pools[t].allow_expansion_

\* C22 as stated: a null return means the underlying allocation failed, and
\* every request not served by a tier is a registered direct allocation that
\* adds one to cache_misses.
C22_Original ==
    [][AllocateCall =>
         /\ last'.ptr = NULL => MallocResults(TheWorld) = {NULL}
         /\ (last'.ptr # NULL /\ ~last'.hit) =>
               /\ ServedDirectly
               /\ stats_'.cache_misses = stats_.cache_misses + 1]_vars

\* C22: for size > 0 allocate returns null only when the underlying
\* allocation fails (std::malloc has no block left), and then nothing of the
\* pool changes; a request whose selected tier is exhausted, with memory
\* left, is served by a direct allocation; every direct allocation is
\* registered in direct_allocations_ with the requested size, adds one to
\* direct_allocations, and adds one to cache_misses exactly when
\* enable_statistics is set.
C22_FallbackOnlyFailsWithAllocator ==
    [][AllocateCall =>
         /\ last'.ptr = NULL =>
               /\ MallocResults(TheWorld) = {NULL}
               /\ pools' = pools
               /\ direct_allocations_' = direct_allocations_
               /\ stats_' = stats_
         /\ (TierExhausted(last'.size) /\ MallocResults(TheWorld) # {NULL}) =>
               /\ last'.ptr # NULL
               /\ ~last'.hit
         /\ (last'.ptr # NULL /\ ~last'.hit) =>
               /\ ServedDirectly
               /\ stats_'.cache_misses =
                     stats_.cache_misses + (IF config_.enable_statistics THEN 1 ELSE 0)]_vars

\* a request whose selected tier was exhausted has been served directly and
\* counted as a miss
C22_Witness ==
    /\ last.op = "allocate"
    /\ last.size > 0
    /\ last.tier # NoTier
    /\ ~last.hit
    /\ last.ptr \in DOMAIN direct_allocations_
    /\ direct_allocations_[last.ptr].size = last.size
    /\ stats_.direct_allocations = 1
    /\ stats_.cache_misses = 1
    /\ stats_.cache_hits >= 1
-----------------------------------------------------------------------------
\* Further claims checked under SpecTier

\* the step is an acquire() of the tier (release calls are counted by nops)
TierAcquireStep == nops' = nops /\ last'.op = "acquire"

\* the step is a release(ptr) of the tier
TierReleaseStep == nops' = nops + 1 /\ last'.op = "release"

\* C24: the free-list is a queue.  acquire leases the block at its front
\* and removes it, the blocks behind keeping their order; blocks created by
\* an expansion queue up in creation order, so the first one created is the
\* one leased; release of a leased block puts it at the back.  Hence among
\* the free blocks the one freed or created earliest is leased next.
C24_FifoReuse ==
    [][LET bp == pools["small"]
           bp2 == pools'["small"]
       IN  /\ (TierAcquireStep /\ bp.free_list_ # <<>>) =>
                 /\ last'.ptr = bp.blocks_[Head(bp.free_list_)].data
                 /\ bp2.free_list_ = Tail(bp.free_list_)
                 /\ bp2.blocks_[Head(bp.free_list_)].in_use
           /\ (TierAcquireStep /\ bp.free_list_ = <<>> /\ last'.ptr # NULL) =>
                 /\ last'.ptr = bp2.blocks_[Len(bp.blocks_) + 1].data
                 /\ bp2.free_list_ =
                       [k \in 1 .. (Len(bp2.blocks_) - Len(bp.blocks_) - 1)
                          |-> Len(bp.blocks_) + 1 + k]
           /\ (TierReleaseStep /\ owns(bp, last'.ptr)
                 /\ bp.blocks_[FindBlock(bp, last'.ptr)].in_use) =>
                 bp2.free_list_ = Append(bp.free_list_, FindBlock(bp, last'.ptr))]_vars

\* two blocks were leased, the second was released before the first, and
\* the next acquire leased the second again, leaving the first in the queue
C24_Witness ==
    /\ config_.small_pool_count = 2
    /\ nops = 2
    /\ last.op = "acquire"
    /\ last.free_before = 2
    /\ last.total_before = 2
    /\ last.ptr = pools["small"].blocks_[2].data
    /\ pools["small"].free_list_ = <<1>>

\* the free-list holds exactly the blocks that are not leased, each once
FreeListExact ==
    LET bp == pools["small"]
    IN  /\ \A k \in 1 .. Len(bp.free_list_) :
              /\ bp.free_list_[k] \in 1 .. Len(bp.blocks_)
              /\ ~bp.blocks_[bp.free_list_[k]].in_use
        /\ \A k, l \in 1 .. Len(bp.free_list_) :
              bp.free_list_[k] = bp.free_list_[l] => k = l
        /\ \A i \in 1 .. Len(bp.blocks_) :
              ~bp.blocks_[i].in_use => \E k \in 1 .. Len(bp.free_list_) :
                                          bp.free_list_[k] = i

\* C25: a block goes from free to leased only in the acquire that returns
\* it and from leased to free only in a release of its pointer; a release
\* of a block that is already free, or of a pointer the tier does not own,
\* changes neither a flag nor the free-list, so no block is queued twice.
C25_BlockStateMachine ==
    /\ []FreeListExact
    /\ [][LET bp == pools["small"]
              bp2 == pools'["small"]
          IN  /\ Len(bp2.blocks_) >= Len(bp.blocks_)
              /\ \A i \in 1 .. Len(bp.blocks_) :
                    /\ bp2.blocks_[i].data = bp.blocks_[i].data
                    /\ (~bp.blocks_[i].in_use /\ bp2.blocks_[i].in_use) =>
                          (TierAcquireStep /\ last'.ptr = bp.blocks_[i].data)
                    /\ (bp.blocks_[i].in_use /\ ~bp2.blocks_[i].in_use) =>
                          (TierReleaseStep /\ last'.ptr = bp.blocks_[i].data)
              /\ (TierAcquireStep /\ last'.ptr # NULL) =>
                    \E i \in 1 .. Len(bp2.blocks_) :
                       /\ bp2.blocks_[i].data = last'.ptr
                       /\ bp2.blocks_[i].in_use
                       /\ i <= Len(bp.blocks_) => ~bp.blocks_[i].in_use
              /\ (TierReleaseStep /\ owns(bp, last'.ptr)
                    /\ bp.blocks_[FindBlock(bp, last'.ptr)].in_use) =>
                    ~bp2.blocks_[FindBlock(bp, last'.ptr)].in_use
              /\ (TierReleaseStep
                    /\ (~owns(bp, last'.ptr)
                          \/ ~bp.blocks_[FindBlock(bp, last'.ptr)].in_use)) =>
                    pools' = pools]_vars

\* a block was leased, released, and released a second time
C25_Witness ==
    /\ last.op = "release"
    /\ nops = 2
    /\ ~clean
    /\ owns(pools["small"], last.ptr)
    /\ last.free_before = last.total_before
    /\ get_free_count(pools["small"]) = get_total_count(pools["small"])
    /\ FindBlock(pools["small"], last.ptr) = 1
    /\ pools["small"].free_list_[Len(pools["small"].free_list_)] = 1
    /\ get_total_count(pools["small"]) >= 2

(***************************************************************************)
(* SpecSelect: MemoryPool::select_pool as a function of the three          *)
(* configured block sizes and the request size.  The sizes range over      *)
(* 0 .. MaxSelectSize in every order (the constructor takes them as        *)
(* given), the request over 0 .. MaxSelectSize + 1.  last records the      *)
(* request and the tier returned.                                          *)
(***************************************************************************)
MaxSelectSize == 3

SelectConfigs ==
    [small_block_size : 0 .. MaxSelectSize, medium_block_size : 0 .. MaxSelectSize,
     large_block_size : 0 .. MaxSelectSize, small_pool_count : {0},
     medium_pool_count : {0}, large_pool_count : {0},
     alignment : {CACHE_LINE}, enable_statistics : {TRUE},
     zero_on_dealloc : {TRUE}, allow_expansion : {TRUE}]

InitSelect ==
    /\ config_ \in SelectConfigs
    /\ heap = Heap0
    /\ aa = AA0
    /\ tracker = Tracker0
    /\ aborted = FALSE
    /\ pools = EmptyMap
    /\ direct_allocations_ = EmptyMap
    /\ stats_ = Statistics0
    /\ held = {}
    /\ clean = TRUE
    /\ last = [op |-> "init", size |-> 0, tier |-> NoTier]
    /\ nops = 0
    /\ AlignUnused
    /\ ConcUnused

\* select_pool(size)
SelectPool(size) ==
    /\ last' = [op |-> "select_pool", size |-> size,
                tier |-> select_pool(config_, size)]
    /\ UNCHANGED <<poolVars, worldVars, held, clean, nops, alignVars, concVars,
                   trackVars, memory>>

NextSelect == \E size \in 0 .. MaxSelectSize + 1 : SelectPool(size)

SpecSelect == InitSelect /\ [][NextSelect]_vars

\* the tiers whose block size is at least the request, as positions in the
\* order small, medium, large
Fitting == {i \in 1 .. 3 : last.size <= block_size_of(config_, Tiers[i])}

FirstFitting == CHOOSE i \in Fitting : \A j \in Fitting : i <= j

\* C26 as stated: the first fitting tier is returned, and no tier whenever
\* the request exceeds the large tier's block size.
C26_Original ==
    last.op = "select_pool" =>
        /\ Fitting # {} => last.tier = Tiers[FirstFitting]
        /\ last.size > config_.large_block_size => last.tier = NoTier

\* C26: select_pool(size) returns the first tier in the order small,
\* medium, large whose block size is >= size (a size equal to the block
\* size selects the tier) and returns no tier exactly when size exceeds the
\* block size of every tier.
C26_FirstFittingTier ==
    last.op = "select_pool" =>
        IF Fitting = {} THEN last.tier = NoTier
        ELSE last.tier = Tiers[FirstFitting]

\* a request of exactly the medium block size, too large for the small
\* tier, selected the medium tier
C26_Witness ==
    /\ last.op = "select_pool"
    /\ last.size = config_.medium_block_size
    /\ last.size > config_.small_block_size
    /\ last.size < config_.large_block_size
    /\ last.tier = "medium"
-----------------------------------------------------------------------------
\* Further claims checked under SpecTracker

\* C27: track_deallocation(ptr) for a pointer that is not in the ledger
\* leaves the ledger, the aggregate statistics and the per-tag totals as
\* they were, and the process goes on.
C27_UntrackedPointerIgnored ==
    [][(/\ nops' = nops + 1
        /\ last'.op = "track_deallocation"
        /\ last'.ptr \notin DOMAIN tracker.allocations_) =>
          /\ tracker'.allocations_ = tracker.allocations_
          /\ tracker'.stats_ = tracker.stats_
          /\ tracker'.stats_.allocations_by_tag = tracker.stats_.allocations_by_tag
          /\ ~aborted']_vars

\* with tracking enabled and another pointer in the ledger under a tag, a
\* non-null pointer that is not in the ledger was passed
C27_Witness ==
    /\ last.op = "track_deallocation"
    /\ last.ptr # NULL
    /\ last.before.enabled_
    /\ last.ptr \notin DOMAIN last.before.allocations_
    /\ DOMAIN last.before.allocations_ # {}
    /\ DOMAIN last.before.stats_.allocations_by_tag # {}
    /\ tracker = last.before

\* C28: no key of the per-tag map has a total of zero.
C28_NoZeroTagKey ==
    \A tag \in DOMAIN tracker.stats_.allocations_by_tag :
       tracker.stats_.allocations_by_tag[tag] # 0
-----------------------------------------------------------------------------
\* Further claims about warmup(), checked under SpecWarm

WarmupCall == nops' = nops + 1 /\ last'.op = "warmup"

\* no lease is outstanding: every tier block is free and no direct
\* allocation is registered
NoOutstandingLease == NoLease /\ direct_allocations_ = EmptyMap

\* floor(small_count/2) + floor(medium_count/2) + floor(large_count/2)
WarmupRequests ==
    (config_.small_pool_count \div 2) + (config_.medium_pool_count \div 2)
    + (config_.large_pool_count \div 2)

\* each tier holds the blocks warmup() asks of it, and warmup's request for
\* a tier's block size selects that tier
TiersCoverWarmup ==
    \A t \in TierSet :
       pool_count_of(config_, t) \div 2 > 0 =>
          /\ get_total_count(pools[t]) >= pool_count_of(config_, t) \div 2
          /\ select_pool(config_, block_size_of(config_, t)) = t

AllFreeAfter ==
    \A t \in TierSet :
       /\ InUseCount(pools'[t]) = 0
       /\ get_free_count(pools'[t]) = get_total_count(pools'[t])

MaxZeroOps == 4
MaxZeroAddr == 2

\* bytes modelled behind each user pointer: the largest request
MaxBytes == BlockLarge + 1

ZeroSizes == {1, BlockSmall, MaxBytes}

ZeroConfigs ==
    [small_block_size : {BlockSmall}, medium_block_size : {BlockMedium},
     large_block_size : {BlockLarge}, small_pool_count : {0, 1},
     medium_pool_count : {0}, large_pool_count : {0},
     alignment : {CACHE_LINE}, enable_statistics : {TRUE},
     zero_on_dealloc : BOOLEAN, allow_expansion : BOOLEAN]

\* std::memset(ptr, 0, n)
memset(mem, ptr, n) ==
    [mem EXCEPT ![ptr].bytes = [i \in 1 .. MaxBytes |->
                                   IF i <= n THEN "zero" ELSE @[i]]]

\* the tier deallocate finds to own ptr, testing small, medium, large
OwningTier(pls, ptr) ==
    IF owns(pls["small"], ptr) THEN "small"
    ELSE IF owns(pls["medium"], ptr) THEN "medium"
    ELSE IF owns(pls["large"], ptr) THEN "large"
    ELSE NoTier

InitZero ==
    /\ config_ \in ZeroConfigs
    /\ \E mp \in MemoryPoolNew([World0 EXCEPT !.heap = HeapOf(1 .. MaxZeroAddr)],
                               config_) :
          /\ heap = mp.w.heap
          /\ aa = mp.w.aa
          /\ tracker = mp.w.tr
          /\ aborted = mp.w.aborted
          /\ pools = mp.pools
          /\ direct_allocations_ = mp.direct
          /\ stats_ = mp.stats
    /\ held = {}
    /\ clean = TRUE
    /\ last = NoCall
    /\ nops = 0
    /\ AlignUnused
    /\ pc = EmptyMap
    /\ loc = EmptyMap
    /\ owned = EmptyMap
    /\ max_total = 0
    /\ reset_dirty = FALSE
    /\ TrackUnused
    /\ memory = [p \in 1 .. MaxZeroAddr |->
                   [bytes |-> [i \in 1 .. MaxBytes |-> "uninit"], lease |-> 0]]

\* p = pool.allocate(size), with the memset of lines 231-234
ZeroAllocate(size) ==
    /\ ~aborted
    /\ nops < MaxZeroOps
    /\ \E r \in allocate(TheWorld, config_, pools, direct_allocations_, stats_, size) :
          /\ SetPool(r)
          /\ held' = IF r.ptr = NULL THEN held ELSE held \cup {r.ptr}
          /\ memory' =
                IF r.ptr = NULL THEN memory
                ELSE [(IF config_.zero_on_dealloc
                       THEN memset(memory, r.ptr, size)
                       ELSE memory) EXCEPT ![r.ptr].lease = size]
          /\ last' = [op |-> "allocate", size |-> size, ptr |-> r.ptr,
                      tier |-> r.tier, hit |-> r.hit]
    /\ nops' = nops + 1
    /\ UNCHANGED <<config_, clean, alignVars, concVars, trackVars>>

\* the caller fills the bytes it was granted at ptr
ZeroWrite(ptr) ==
    /\ ~aborted
    /\ nops < MaxZeroOps
    /\ ptr \in held
    /\ memory' = [memory EXCEPT ![ptr].bytes =
                     [i \in 1 .. MaxBytes |->
                        IF i <= memory[ptr].lease THEN "data" ELSE @[i]]]
    /\ last' = [op |-> "write", size |-> memory[ptr].lease, ptr |-> ptr,
                tier |-> NoTier, hit |-> FALSE]
    /\ nops' = nops + 1
    /\ UNCHANGED <<worldVars, poolVars, held, clean, alignVars, concVars, trackVars>>

\* pool.deallocate(ptr) of a pointer the caller holds, with the memset of
\* the owning tier's branch (lines 249-266); the direct branch (lines
\* 267-275) frees the memory as it is
ZeroDeallocate(ptr) ==
    /\ ~aborted
    /\ nops < MaxZeroOps
    /\ ptr \in held
    /\ SetPool(deallocate(TheWorld, config_, pools, direct_allocations_, stats_, ptr))
    /\ held' = held \ {ptr}
    /\ memory' =
          LET t == OwningTier(pools, ptr)
          IN  [(IF t # NoTier /\ config_.zero_on_dealloc
                THEN memset(memory, ptr, block_size_of(config_, t))
                ELSE memory) EXCEPT ![ptr].lease = 0]
    /\ last' = [op |-> "deallocate", size |-> 0, ptr |-> ptr,
                tier |-> NoTier, hit |-> FALSE]
    /\ nops' = nops + 1
    /\ UNCHANGED <<config_, clean, alignVars, concVars, trackVars>>

NextZero ==
    \/ \E size \in ZeroSizes : ZeroAllocate(size)
    \/ \E ptr \in 1 .. MaxZeroAddr : ZeroWrite(ptr)
    \/ \E ptr \in 1 .. MaxZeroAddr : ZeroDeallocate(ptr)

SpecZero == InitZero /\ [][NextZero]_vars

\* C29: with zero_on_dealloc configured, when allocate(size) returns a
\* pointer its first size bytes are zero, and if a tier served the request
\* no byte of the block holds what a previous lessee wrote.
C29_NoStaleBytes ==
    (config_.zero_on_dealloc /\ last.op = "allocate" /\ last.ptr # NULL) =>
        /\ \A i \in 1 .. last.size : memory[last.ptr].bytes[i] = "zero"
        /\ last.hit =>
              \A i \in 1 .. block_size_of(config_, last.tier) :
                 memory[last.ptr].bytes[i] # "data"

\* the first size bytes of a returned pointer are zero
C29_GrantedBytesZero ==
    (config_.zero_on_dealloc /\ last.op = "allocate" /\ last.ptr # NULL) =>
        \A i \in 1 .. last.size : memory[last.ptr].bytes[i] = "zero"

(***************************************************************************)
(* SpecLive: the threads of SpecLock calling allocate, deallocate and       *)
(* get_statistics of a pool, and AlignedAllocator::allocate and            *)
(* deallocate directly, any number of times.  Of AlignedAllocator only the *)
(* peak update and the tracker call are kept: current is any total of at   *)
(* most MaxLiveTotal bytes.  A thread that can run does run (weak fairness *)
(* of the steps that do not wait); what a std::mutex promises a waiting    *)
(* thread is left to the property checked.                                 *)
(***************************************************************************)
MaxLiveTotal == 2

AlignLocals(op, current) ==
    [op |-> op, pool |-> 0, tier |-> NoTier, home |-> NoTier, i |-> 0,
     ret |-> "done", warm |-> FALSE, held |-> <<>>, current |-> current,
     peak |-> 0]

LiveFrame ==
    UNCHANGED <<heap, tracker, aborted, config_, pools, direct_allocations_, stats_,
                held, clean, last, nops, alignVars, owned, max_total,
                reset_dirty, trackVars, memory>>

\* AlignedAllocator::allocate up to update_peak_memory(prev_total + size)
CallAlignedAllocate(t, current) ==
    /\ At(t, "idle")
    /\ LockGo(t, "peak_load", AlignLocals("aligned_allocate", current))
    /\ UNCHANGED aa /\ LiveFrame

\* update_peak_memory: size_t peak = peak_allocated_.load()
PeakLoad(t) ==
    /\ At(t, "peak_load")
    /\ LockGo(t, "peak_cas", [loc[t] EXCEPT !.peak = aa.peak_allocated_])
    /\ UNCHANGED aa /\ LiveFrame

\* update_peak_memory: one turn of while (current > peak) { if (CAS) break; };
\* track_allocation follows the loop
PeakCas(t) ==
    /\ At(t, "peak_cas")
    /\ IF loc[t].current > loc[t].peak
       THEN LET r == compare_exchange_weak(aa.peak_allocated_, loc[t].peak,
                                           loc[t].current)
            IN  /\ aa' = [aa EXCEPT !.peak_allocated_ = r.value]
                /\ LockGo(t, IF r.ok THEN "tr_lock" ELSE "peak_cas",
                          [loc[t] EXCEPT !.peak = r.expected])
       ELSE /\ aa' = aa
            /\ LockGo(t, "tr_lock", loc[t])
    /\ LiveFrame

\* AlignedAllocator::deallocate: the counters, then track_deallocation
CallAlignedDeallocate(t) ==
    /\ At(t, "idle")
    /\ LockGo(t, "tr_lock", AlignLocals("aligned_deallocate", 0))
    /\ UNCHANGED aa /\ LiveFrame

\* a step of thread t that waits for nothing
Running(t) ==
    \/ PeakLoad(t) \/ PeakCas(t)
    \/ AcquirePop(t) \/ AcquireEmpty(t) \/ DirectMalloc(t)
    \/ RegWrite(t) \/ RegCount(t) \/ Update(t) \/ StatsBody(t)
    \/ TrackerBody(t) \/ OwnsBody(t) \/ ReleaseBody(t)
    \/ DmapBody(t) \/ DmapUnlock(t)

\* one pool: its locks and the tracker's are what the threads contend for
LivePools == {1}

\* the tiers requests are made of: the tiers' locks are alike, and
\* deallocate probes all three in any case
LiveTiers == {"small"}

NextLive ==
    \/ \E t \in LockThreads, p \in LivePools, tier \in LiveTiers \cup {NoTier} :
          CallAllocate(t, p, tier)
    \/ \E t \in LockThreads, p \in LivePools,
          home \in LiveTiers \cup {"direct", "unknown"} : CallDeallocate(t, p, home)
    \/ \E t \in LockThreads, p \in LivePools : CallGetStatistics(t, p)
    \/ \E t \in LockThreads, current \in 1 .. MaxLiveTotal :
          CallAlignedAllocate(t, current)
    \/ \E t \in LockThreads : CallAlignedDeallocate(t)
    \/ \E t \in LockThreads : LockGuard(t)
    \/ \E t \in LockThreads : PeakLoad(t)
    \/ \E t \in LockThreads : PeakCas(t)
    \/ \E t \in LockThreads : AcquirePop(t)
    \/ \E t \in LockThreads : AcquireEmpty(t)
    \/ \E t \in LockThreads : DirectMalloc(t)
    \/ \E t \in LockThreads : RegWrite(t)
    \/ \E t \in LockThreads : RegCount(t)
    \/ \E t \in LockThreads : Update(t)
    \/ \E t \in LockThreads : StatsBody(t)
    \/ \E t \in LockThreads : TrackerBody(t)
    \/ \E t \in LockThreads : OwnsBody(t)
    \/ \E t \in LockThreads : ReleaseBody(t)
    \/ \E t \in LockThreads : DmapBody(t)
    \/ \E t \in LockThreads : DmapUnlock(t)

SpecLive ==
    /\ InitLock
    /\ [][NextLive]_vars
    /\ \A t \in LockThreads : WF_vars(Running(t))

\* every call a thread is in returns
EveryCallReturns == \A t \in LockThreads : (pc[t] # "idle") ~> (pc[t] = "idle")

-----------------------------------------------------------------------------
\* Claims on the Statistics, checked under Spec (calls are atomic there, so
\* every state is one in which no allocate call is in progress)

\* C31: with enable_statistics set, between calls cache_hits is the sum of
\* the three per-tier hit counters, cache_misses equals direct_allocations
\* and allocation_count equals cache_hits + cache_misses; the snapshot of
\* get_statistics() reports hit rate 0 when cache_hits + cache_misses is 0.
C31_HitMissAccounting ==
    config_.enable_statistics =>
        /\ stats_.cache_hits =
               Wrap(stats_.small_pool_hits + stats_.medium_pool_hits
                    + stats_.large_pool_hits)
        /\ stats_.cache_misses = stats_.direct_allocations
        /\ stats_.allocation_count = Wrap(stats_.cache_hits + stats_.cache_misses)
        /\ get_statistics(stats_).stats = stats_
        /\ (Wrap(stats_.cache_hits + stats_.cache_misses) = 0
              => get_statistics(stats_).hit_rate = <<0, 1>>)

\* a hit and a miss have both been counted, the last call being the miss
C31_Witness ==
    /\ config_.enable_statistics
    /\ last.op = "allocate"
    /\ last.ptr # NULL
    /\ ~last.hit
    /\ stats_.cache_hits = 1
    /\ stats_.cache_misses = 1
    /\ stats_.small_pool_hits = 1

\* the step just taken is a MemoryPool::deallocate(ptr) call, ptr non-null
DeallocateCall == nops' = nops + 1 /\ last'.op = "deallocate" /\ last'.ptr # NULL

\* the first tier, in the order small, medium, large, one of whose blocks
\* has ptr as its data pointer; NoTier when there is none
FirstOwner(ptr) ==
    IF owns(pools["small"], ptr) THEN "small"
    ELSE IF owns(pools["medium"], ptr) THEN "medium"
    ELSE IF owns(pools["large"], ptr) THEN "large"
    ELSE NoTier

\* the Statistics after a deallocation of size bytes was counted
DeallocationCounted(size) ==
    /\ stats_'.total_deallocated = Wrap(stats_.total_deallocated + size)
    /\ stats_'.current_usage = Wrap(stats_.current_usage - size)
    /\ stats_'.deallocation_count = Wrap(stats_.deallocation_count + 1)

\* what deallocate(ptr) does to the tiers and the direct-allocation map:
\* the first owning tier alone releases ptr; with no owning tier, the entry
\* of ptr, if any, leaves the map
DeallocateRouted(ptr) ==
    LET t == FirstOwner(ptr)
    IN  IF t # NoTier
        THEN /\ pools' = [pools EXCEPT ![t] = release(@, ptr)]
             /\ direct_allocations_' = direct_allocations_
        ELSE /\ pools' = pools
             /\ ptr \notin DOMAIN direct_allocations_'
             /\ \A q \in DOMAIN direct_allocations_ \ {ptr} :
                   /\ q \in DOMAIN direct_allocations_'
                   /\ direct_allocations_'[q] = direct_allocations_[q]

\* the size deallocate(ptr) reports to update_statistics
ReportedSize(ptr) ==
    IF FirstOwner(ptr) # NoTier THEN block_size_of(config_, FirstOwner(ptr))
    ELSE direct_allocations_[ptr].size

\* C32 as stated: every deallocate of a tier-owned or direct pointer adds
\* the tier's block size, respectively the recorded size, to
\* total_deallocated and increments deallocation_count.
C32_Original ==
    [][(DeallocateCall /\ KnownPointer(last'.ptr)) =>
          /\ DeallocateRouted(last'.ptr)
          /\ DeallocationCounted(ReportedSize(last'.ptr))]_vars

\* C32: deallocate(ptr) probes small, medium, large, then the direct map:
\* the first owning tier alone releases ptr, a direct pointer leaves the
\* direct-allocation map; with enable_statistics set total_deallocated grows
\* by the tier's block size, respectively the recorded requested size, and
\* deallocation_count by one; with enable_statistics clear the Statistics
\* stay as they were.
C32_DeallocateRoutesAndCounts ==
    [][(DeallocateCall /\ KnownPointer(last'.ptr)) =>
          /\ DeallocateRouted(last'.ptr)
          /\ IF config_.enable_statistics
             THEN DeallocationCounted(ReportedSize(last'.ptr))
             ELSE stats_' = stats_
          /\ ~aborted']_vars

\* a tier block and a direct allocation have both been given back and
\* counted, the direct one last
C32_Witness ==
    /\ config_.enable_statistics
    /\ last.op = "deallocate"
    /\ stats_.direct_allocations = 1
    /\ stats_.small_pool_hits = 1
    /\ stats_.deallocation_count = 2
    /\ stats_.total_deallocated = BlockSmall + BlockLarge + 1
    /\ direct_allocations_ = EmptyMap
    /\ held = {}
    /\ clean

\* the block of the first owning tier whose data pointer is ptr is free
AlreadyFree(ptr) ==
    LET bp == pools[FirstOwner(ptr)]
    IN  ~bp.blocks_[FindBlock(bp, ptr)].in_use

\* C36: deallocate(ptr) of a tier-owned pointer whose block is already free
\* leaves current_usage, total_deallocated and deallocation_count as they
\* were, as it leaves the tier.
C36_DoubleReleaseLeavesStatistics ==
    [][(/\ DeallocateCall
        /\ FirstOwner(last'.ptr) # NoTier
        /\ AlreadyFree(last'.ptr)) =>
          /\ pools' = pools
          /\ stats_'.current_usage = stats_.current_usage
          /\ stats_'.total_deallocated = stats_.total_deallocated
          /\ stats_'.deallocation_count = stats_.deallocation_count]_vars

\* C37: as long as every returned pointer is deallocated at most once,
\* peak_usage >= current_usage between calls (a current_usage that wrapped
\* below zero is a value above every peak).
C37_PeakBoundsUsage == clean => stats_.peak_usage >= stats_.current_usage

\* C39: with enable_statistics clear, every counter of the Statistics,
\* the per-tier hit counters and direct_allocations included, stays zero.
C39_DisabledStatisticsStayZero == ~config_.enable_statistics => stats_ = Statistics0

\* the sizes of the entries of the tracker's ledger, added up in size_t
LedgerBytes ==
    Wrap(SumOver([p \in DOMAIN tracker.allocations_ |-> tracker.allocations_[p].size],
                 DOMAIN tracker.allocations_))

\* C35: with the tracker enabled, after any sequence of pool construction,
\* allocate, deallocate and reset the tracker's current_allocated is the
\* sum of the sizes of the entries in its ledger (0 when the ledger is
\* empty).
C35_CurrentAllocatedIsLedgerSum ==
    tracker.enabled_ => tracker.stats_.current_allocated = LedgerBytes

-----------------------------------------------------------------------------
\* Further claims checked under SpecWarm

\* C38: no sequence of allocate, deallocate (with any pointer argument:
\* repeated, stale or foreign), warmup, reset and destruction reaches
\* std::abort() in AlignedAllocator::deallocate: the pool hands a pointer to
\* AlignedAllocator::deallocate only while its header holds MAGIC_NUMBER.
C38_PoolNeverAborts == ~aborted

\* a direct allocation was freed by the pool (deallocate or reset) and its
\* stale pointer was then passed to deallocate again
C38_Witness ==
    /\ last.op = "deallocate"
    /\ last.ptr # NULL
    /\ PoolExists
    /\ ~clean
    /\ heap[last.ptr].magic = "FREED"
    /\ stats_.direct_allocations = 1
    /\ direct_allocations_ = EmptyMap
    /\ ~aborted

-----------------------------------------------------------------------------
\* SpecPeer: one MemoryPool and, in the same process, another component
\* that calls AlignedAllocator::allocate and AlignedAllocator::deallocate
\* itself.  Both share the platform heap and the MemoryTracker singleton.
\* allocs holds the pointers the other component was returned and has not
\* freed.

MaxPeerOps == 3

PeerSizes == {1, BlockLarge}

InitPeer ==
    /\ config_ \in ConfigsWarm
    /\ \E mp \in MemoryPoolNew([World0 EXCEPT !.heap = HeapOf(1 .. MaxAddr)], config_) :
          /\ heap = mp.w.heap
          /\ aa = mp.w.aa
          /\ tracker = mp.w.tr
          /\ aborted = mp.w.aborted
          /\ pools = mp.pools
          /\ direct_allocations_ = mp.direct
          /\ stats_ = mp.stats
    /\ held = {}
    /\ clean = TRUE
    /\ last = NoCall
    /\ nops = 0
    /\ reservations = {}
    /\ headers = EmptyMap
    /\ allocs = {}
    /\ ConcUnused

\* q = AlignedAllocator::allocate(size, CACHE_LINE), called by the other
\* component
PeerAllocate(size) ==
    /\ ~aborted
    /\ nops < MaxPeerOps
    /\ \E r \in AAAllocate(TheWorld, size, CACHE_LINE) :
          /\ SetWorld(r.w)
          /\ allocs' = IF r.ptr = NULL THEN allocs ELSE allocs \cup {r.ptr}
          /\ last' = [op |-> "peer_allocate", size |-> size, ptr |-> r.ptr,
                      tier |-> NoTier, hit |-> FALSE]
    /\ nops' = nops + 1
    /\ UNCHANGED <<poolVars, held, clean, reservations, headers, concVars,
                   trackVars, memory>>

\* AlignedAllocator::deallocate(q), called by the other component on a
\* pointer it was returned
PeerDeallocate(ptr) ==
    /\ ~aborted
    /\ nops < MaxPeerOps
    /\ ptr \in allocs
    /\ SetWorld(AADeallocate(TheWorld, ptr))
    /\ allocs' = allocs \ {ptr}
    /\ last' = [op |-> "peer_deallocate", size |-> 0, ptr |-> ptr,
                tier |-> NoTier, hit |-> FALSE]
    /\ nops' = nops + 1
    /\ UNCHANGED <<poolVars, held, clean, reservations, headers, concVars,
                   trackVars, memory>>

PoolAllocate(size) == nops < MaxPeerOps /\ Allocate(size)

PoolDeallocate(ptr) == nops < MaxPeerOps /\ Deallocate(ptr)

NextPeer ==
    \/ \E size \in Sizes : PoolAllocate(size)
    \/ \E ptr \in {NULL} \cup Addr : PoolDeallocate(ptr)
    \/ \E size \in PeerSizes : PeerAllocate(size)
    \/ \E ptr \in Addr : PeerDeallocate(ptr)

SpecPeer == InitPeer /\ [][NextPeer]_vars

\* C40: deallocate(ptr) with a pointer that no tier owns and that is not in
\* the direct-allocation map leaves the tracker's ledger and statistics
\* unchanged, also when the ledger holds a live entry for ptr made by a
\* direct AlignedAllocator::allocate call.
C40_UnknownPointerLeavesTracker ==
    [][(DeallocateCall /\ ~KnownPointer(last'.ptr)) => tracker' = tracker]_vars

-----------------------------------------------------------------------------
(***************************************************************************)
(* SpecRace: threads calling allocate and deallocate on one MemoryPool,    *)
(* with the addresses they are returned.  reset() is not called.  A step   *)
(* is one critical section of the call: what runs under a tier's mutex_,   *)
(* under direct_mutex_, or inside one AlignedAllocator or MemoryTracker    *)
(* call.  std::malloc and std::free are atomic, a MemoryTracker call runs  *)
(* under the tracker's mutex, and the blocks_ of a tier only grow, so the  *)
(* three owns() probes of deallocate and the release that follows are one  *)
(* step for a pointer its holder gives back.  The counter updates under    *)
(* stats_mutex_ are made in the step they follow.                          *)
(***************************************************************************)
MaxRaceCalls == 5

MaxRaceAddr == 3

RaceThreads == {1, 2}

RaceSizes == {1, BlockLarge + 1}

RaceConfigs ==
    {[small_block_size |-> BlockSmall, medium_block_size |-> BlockMedium,
      large_block_size |-> BlockLarge,
      small_pool_count |-> CountSmall, medium_pool_count |-> 0,
      large_pool_count |-> 0,
      alignment |-> CACHE_LINE, enable_statistics |-> TRUE,
      zero_on_dealloc |-> TRUE, allow_expansion |-> ae]
     : ae \in BOOLEAN}

RaceIdle == [ptr |-> NULL, size |-> 0, hit |-> FALSE]

RaceFrame ==
    UNCHANGED <<config_, held, clean, last, alignVars, max_total, reset_dirty,
                trackVars, memory>>

RaceGo(t, step, locals) ==
    /\ pc' = [pc EXCEPT ![t] = step]
    /\ loc' = [loc EXCEPT ![t] = locals]

InitRace ==
    /\ config_ \in RaceConfigs
    /\ \E mp \in MemoryPoolNew([World0 EXCEPT !.heap = HeapOf(1 .. MaxRaceAddr)],
                               config_) :
          /\ heap = mp.w.heap
          /\ aa = mp.w.aa
          /\ tracker = mp.w.tr
          /\ aborted = mp.w.aborted
          /\ pools = mp.pools
          /\ direct_allocations_ = mp.direct
          /\ stats_ = mp.stats
    /\ held = {}
    /\ clean = TRUE
    /\ last = NoCall
    /\ nops = 0
    /\ AlignUnused
    /\ pc = [t \in RaceThreads |-> "idle"]
    /\ loc = [t \in RaceThreads |-> RaceIdle]
    /\ owned = [t \in RaceThreads |-> {}]
    /\ max_total = 0
    /\ reset_dirty = FALSE
    /\ TrackUnused
    /\ ZeroUnused

\* allocate(size), size > 0, lines 195-216: select_pool, then acquire on
\* the selected tier and the tier's hit counter
RaceAllocate(t, size) ==
    /\ ~aborted
    /\ pc[t] = "idle"
    /\ nops < MaxRaceCalls
    /\ nops' = nops + 1
    /\ LET tier == select_pool(config_, size)
       IN  IF tier = NoTier
           THEN /\ RaceGo(t, "a_direct", [RaceIdle EXCEPT !.size = size])
                /\ UNCHANGED <<worldVars, pools, stats_>>
           ELSE \E r \in acquire(TheWorld, pools[tier]) :
                   /\ SetWorld(r.w)
                   /\ pools' = [pools EXCEPT ![tier] = r.bp]
                   /\ stats_' = IF r.ptr # NULL THEN count_hit(stats_, tier) ELSE stats_
                   /\ RaceGo(t, IF r.ptr # NULL THEN "a_tail" ELSE "a_direct",
                             [ptr |-> r.ptr, size |-> size, hit |-> r.ptr # NULL])
    /\ UNCHANGED <<direct_allocations_, owned>>
    /\ RaceFrame

\* line 220: ptr = AlignedAllocator::allocate(size, config_.alignment);
\* allocate returns nullptr when that fails
RaceDirect(t) ==
    /\ ~aborted
    /\ pc[t] = "a_direct"
    /\ \E d \in AAAllocate(TheWorld, loc[t].size, config_.alignment) :
          /\ SetWorld(d.w)
          /\ IF d.ptr = NULL
             THEN RaceGo(t, "idle", RaceIdle)
             ELSE RaceGo(t, "a_register", [loc[t] EXCEPT !.ptr = d.ptr])
    /\ UNCHANGED <<pools, direct_allocations_, stats_, owned, nops>>
    /\ RaceFrame

\* lines 222-228: under direct_mutex_, direct_allocations_[ptr] = {ptr, size}
\* and stats_.direct_allocations++
RaceRegister(t) ==
    /\ ~aborted
    /\ pc[t] = "a_register"
    /\ direct_allocations_' =
           MapPut(direct_allocations_, loc[t].ptr,
                  [ptr |-> loc[t].ptr, size |-> loc[t].size])
    /\ stats_' = [stats_ EXCEPT !.direct_allocations = Wrap(@ + 1)]
    /\ RaceGo(t, "a_tail", loc[t])
    /\ UNCHANGED <<worldVars, pools, owned, nops>>
    /\ RaceFrame

\* lines 231-242: update_statistics, track_allocation(ptr, size, alignment,
\* "MemoryPool"), return ptr
RaceTail(t) ==
    /\ ~aborted
    /\ pc[t] = "a_tail"
    /\ stats_' = update_statistics(config_, stats_, loc[t].size, TRUE, loc[t].hit)
    /\ tracker' = track_allocation(tracker, loc[t].ptr, loc[t].size,
                                   config_.alignment, TagPool)
    /\ owned' = [owned EXCEPT ![t] = @ \cup {loc[t].ptr}]
    /\ RaceGo(t, "idle", RaceIdle)
    /\ UNCHANGED <<heap, aa, aborted, pools, direct_allocations_, nops>>
    /\ RaceFrame

\* deallocate(ptr), lines 249-279, as [w, pools, direct, stats]: the first
\* owning tier releases and update_statistics counts its block size;
\* otherwise, under direct_mutex_, the entry is erased, the memory freed and
\* update_statistics counts the recorded size
DeallocateBody(w, cfg, pls, direct, st, ptr) ==
    LET same == [w |-> w, pools |-> pls, direct |-> direct, stats |-> st]
        tier(t) == [w |-> w,
                    pools |-> [pls EXCEPT ![t] = release(@, ptr)],
                    direct |-> direct,
                    stats |-> update_statistics(cfg, st, block_size_of(cfg, t),
                                                FALSE, TRUE)]
    IN  IF owns(pls["small"], ptr) THEN tier("small")
        ELSE IF owns(pls["medium"], ptr) THEN tier("medium")
        ELSE IF owns(pls["large"], ptr) THEN tier("large")
        ELSE IF ptr \in DOMAIN direct
        THEN LET w1 == AADeallocate(w, ptr)
             IN  [w |-> w1,
                  pools |-> pls,
                  direct |-> MapErase(direct, ptr),
                  stats |-> IF w1.aborted THEN st
                            ELSE update_statistics(cfg, st, direct[ptr].size,
                                                   FALSE, FALSE)]
        ELSE same

\* deallocate(ptr) of a pointer the thread holds, up to line 279
RaceDeallocate(t, ptr) ==
    /\ ~aborted
    /\ pc[t] = "idle"
    /\ nops < MaxRaceCalls
    /\ ptr \in owned[t]
    /\ nops' = nops + 1
    /\ SetPool(DeallocateBody(TheWorld, config_, pools, direct_allocations_,
                              stats_, ptr))
    /\ owned' = [owned EXCEPT ![t] = @ \ {ptr}]
    /\ RaceGo(t, "d_tail", [RaceIdle EXCEPT !.ptr = ptr])
    /\ RaceFrame

\* lines 281-283: MemoryTracker::getInstance().track_deallocation(ptr)
RaceUntrack(t) ==
    /\ ~aborted
    /\ pc[t] = "d_tail"
    /\ tracker' = track_deallocation(tracker, loc[t].ptr)
    /\ RaceGo(t, "idle", RaceIdle)
    /\ UNCHANGED <<heap, aa, aborted, poolVars, owned, nops>>
    /\ RaceFrame

NextRace ==
    \E t \in RaceThreads :
        \/ \E size \in RaceSizes : RaceAllocate(t, size)
        \/ RaceDirect(t)
        \/ RaceRegister(t)
        \/ RaceTail(t)
        \/ \E ptr \in Addr : RaceDeallocate(t, ptr)
        \/ RaceUntrack(t)

SpecRace == InitRace /\ [][NextRace]_vars

\* ptr is the data pointer of a block of some tier
KnownTierBlock(ptr) == \E t \in TierSet : owns(pools[t], ptr)

\* the pointers leased from a tier: the data of its blocks marked in use
LeasedFromTiers ==
    UNION {{pools[t].blocks_[i].data :
              i \in {j \in 1 .. Len(pools[t].blocks_) : pools[t].blocks_[j].in_use}}
           : t \in TierSet}

\* C33: with each returned pointer deallocated at most once by its holder
\* and no reset, under any interleaving the pointers held by callers are
\* pairwise distinct; each is leased from a tier or a key of the
\* direct-allocation map, never both, and no block of a tier is a key of
\* the direct-allocation map.
C33_HeldPointersDistinct ==
    /\ \A t, u \in RaceThreads : t # u => owned[t] \cap owned[u] = {}
    /\ \A t \in RaceThreads : \A p \in owned[t] :
          (p \in LeasedFromTiers) # (p \in DOMAIN direct_allocations_)
    /\ \A p \in DOMAIN direct_allocations_ : ~KnownTierBlock(p)

\* both threads hold a pointer, one leased from the small tier and one
\* allocated directly, after a pointer was given back
C33_Witness ==
    /\ owned[1] # {}
    /\ owned[2] # {}
    /\ \E p \in owned[1] \cup owned[2] : p \in LeasedFromTiers
    /\ \E p \in owned[1] \cup owned[2] : p \in DOMAIN direct_allocations_
    /\ tracker.stats_.total_deallocations > 0
    /\ stats_.deallocation_count > 0

\* C34: with the tracker enabled, under any interleaving of allocate and
\* deallocate calls every pointer held by a caller has an entry in the
\* tracker's ledger, so detect_leaks() reports it.
C34_HeldPointersAreTracked ==
    tracker.enabled_ =>
        \A t \in RaceThreads : \A p \in owned[t] : p \in detect_leaks(tracker)
=============================================================================
